---- MODULE Spec2Model ----
(***************************************************************************)
(* A model of google/rpmpack: the RPM assembler (rpm.go), the relation     *)
(* parser (NewRelation / parsePkg) and the helpers they use.                *)
(*                                                                         *)
(* Strings are sequences of one-character strings, so that length,         *)
(* concatenation, splitting and the byte order used by sort.Strings are    *)
(* computed and not assumed.  "" is <<>>.                                  *)
(***************************************************************************)
EXTENDS Integers, Sequences, FiniteSets, TLC

(***************************************************************************)
(* Bounds of the model.                                                    *)
(***************************************************************************)
\* AddFile / AddPrein / ... calls made on one RPM
MaxCalls == 3
\* Write calls made on one RPM
MaxWrites == 2
\* relation strings in one metadata list
MaxRels == 2
\* characters in a relation text given to NewRelation
MaxText == 5
\* calls made on the scriptlet registry
MaxScrCalls == 3
\* bytes in a package name given to lead
MaxLeadName == 70
\* index.Add calls on one index
MaxAdds == 4
\* DirIndex.Get calls on one directory index
MaxGets == 5
\* Set and addIfMissing calls on one Relations slice
MaxSets == 3
\* Write calls on the RPM whose Write is followed step by step
MaxRuns == 2
\* strings in an array given to NewIndexEntry
MaxStrings == 3
\* files added to each of two RPMs
MaxFiles == 3

(***************************************************************************)
(* Strings.                                                                *)
(***************************************************************************)
\* The byte value of a character (Go compares strings byte by byte).
Byte(c) ==
  CASE c = " " -> 32
    [] c = "-" -> 45
    [] c = "/" -> 47
    [] c = "1" -> 49
    [] c = "2" -> 50
    [] c = "<" -> 60
    [] c = "=" -> 61
    [] c = ">" -> 62
    [] c = "X" -> 88
    [] c = "Y" -> 89
    [] c = "a" -> 97
    [] c = "b" -> 98
    [] c = "c" -> 99
    [] c = "p" -> 112

\* Go's s < t on strings: the first differing byte decides, a proper prefix is less.
RECURSIVE StrLess(_, _)
StrLess(s, t) ==
  IF t = <<>> THEN FALSE
  ELSE IF s = <<>> THEN TRUE
  ELSE IF Head(s) = Head(t) THEN StrLess(Tail(s), Tail(t))
  ELSE Byte(Head(s)) < Byte(Head(t))

\* s[from..] starts with sub
HasPrefixAt(s, sub, from) ==
  /\ from + Len(sub) - 1 <= Len(s)
  /\ \A k \in 1..Len(sub) : s[from + k - 1] = sub[k]

\* strings.Index(s, sub) + 1, or 0 when sub does not occur in s
Index(s, sub) ==
  LET hits == {i \in 1..(Len(s) + 1) : HasPrefixAt(s, sub, i)}
  IN IF hits = {} THEN 0 ELSE CHOOSE i \in hits : \A j \in hits : i <= j

\* strings.Contains
Contains(s, sub) == Index(s, sub) # 0

\* strings.Split(s, sep) for a non-empty sep: cut at each occurrence, left to right
RECURSIVE Split(_, _)
Split(s, sep) ==
  LET i == Index(s, sep)
  IN IF i = 0 THEN <<s>>
     ELSE <<SubSeq(s, 1, i - 1)>> \o Split(SubSeq(s, i + Len(sep), Len(s)), sep)

\* strings.Trim(s, " ")
RECURSIVE TrimLeft(_)
TrimLeft(s) == IF s # <<>> /\ Head(s) = " " THEN TrimLeft(Tail(s)) ELSE s
RECURSIVE TrimRight(_)
TrimRight(s) ==
  IF s # <<>> /\ s[Len(s)] = " " THEN TrimRight(SubSeq(s, 1, Len(s) - 1)) ELSE s
Trim(s) == TrimRight(TrimLeft(s))

\* strings.LastIndex(s, "/") + 1, or 0
LastSlash(s) ==
  LET hits == {i \in 1..Len(s) : s[i] = "/"}
  IN IF hits = {} THEN 0 ELSE CHOOSE i \in hits : \A j \in hits : j <= i

\* path.Split: everything up to and including the final slash, and the rest
PathSplit(name) ==
  LET i == LastSlash(name)
  IN [dir |-> SubSeq(name, 1, i), file |-> SubSeq(name, i + 1, Len(name))]

\* The keys in descending byte order: what Write would range over if it
\* sorted the other way round
RECURSIVE SortStringsDescending(_)
SortStringsDescending(S) ==
  IF S = {} THEN <<>>
  ELSE LET m == CHOOSE x \in S : \A y \in S \ {x} : StrLess(y, x)
       IN <<m>> \o SortStringsDescending(S \ {m})

\* sort.Strings on the keys of a map (distinct strings): ascending byte order
RECURSIVE SortStrings(_)
SortStrings(S) ==
  IF S = {} THEN <<>>
  ELSE LET m == CHOOSE x \in S : \A y \in S \ {x} : StrLess(x, y)
       IN <<m>> \o SortStrings(S \ {m})

\* The file names as range yielded them, left unsorted
UnsortedNames(fnames) == fnames

\* sort.Strings(fnames) on the keys of r.files collected in fnames
SortedNames(fnames) == SortStrings({fnames[i] : i \in DOMAIN fnames})

\* fmt.Sprintf("%x", sha256.Sum256(b)): a lowercase-hex digest, never the empty
\* string, and different for different bodies
Sha256Hex(b) == <<"sha256", b>>

(***************************************************************************)
(* Bit operations on file modes (uint).                                    *)
(***************************************************************************)
RECURSIVE BitAnd(_, _)
BitAnd(x, y) ==
  IF x = 0 \/ y = 0 THEN 0
  ELSE (x % 2) * (y % 2) + 2 * BitAnd(x \div 2, y \div 2)

BitOr(x, y) == x + y - BitAnd(x, y)

(***************************************************************************)
(* Sense bits and relations (files.go, second part).                       *)
(***************************************************************************)
SenseAny == 0
SenseLess == 2
SenseGreater == 4
SenseEqual == 8

\* The keys of senseStrings, and the string each maps to.
SenseKeys ==
  {SenseAny, SenseLess, SenseGreater, SenseEqual,
   SenseLess + SenseEqual, SenseGreater + SenseEqual}

senseStrings(k) ==
  CASE k = SenseAny -> <<>>
    [] k = SenseLess -> <<"<">>
    [] k = SenseGreater -> <<">">>
    [] k = SenseEqual -> <<"=">>
    [] k = SenseLess + SenseEqual -> <<"<", "=">>
    [] k = SenseGreater + SenseEqual -> <<">", "=">>

\* rpmSense.String
SenseString(k) ==
  IF k \in SenseKeys THEN senseStrings(k)
  ELSE <<"U", "N", "K", "N", "O", "W", "N">>

\* parseSense: the pairs (sense, error) it may return.  When a key's string
\* is the given one, that key and no error.  Otherwise the error, next to the
\* loop variable as the range over the map left it: the last key yielded,
\* which the unspecified order of a map range makes any of the keys.
parseSense(sense) ==
  IF \E k \in SenseKeys : senseStrings(k) = sense
  THEN {[err |-> FALSE, sense |-> k] : k \in {j \in SenseKeys : senseStrings(j) = sense}}
  ELSE {[err |-> TRUE, sense |-> k] : k \in SenseKeys}

OpChars == {"=", "<", ">"}
\* \s of the regular expression: [\t\n\f\r ]
SpaceChars == {" ", "\t", "\n", "\f", "\r"}
\* . of the regular expression matches every character but the newline
LineEnd == {"\n"}

\* length of the longest prefix of s made of characters in C
RECURSIVE SpanIn(_, _)
SpanIn(s, C) == IF s # <<>> /\ Head(s) \in C THEN 1 + SpanIn(Tail(s), C) ELSE 0
\* length of the longest prefix of s made of characters outside C
RECURSIVE SpanNotIn(_, _)
SpanNotIn(s, C) == IF s # <<>> /\ Head(s) \notin C THEN 1 + SpanNotIn(Tail(s), C) ELSE 0

Drop(s, n) == SubSeq(s, n + 1, Len(s))
Take(s, n) == SubSeq(s, 1, n)

\* relationMatch.FindStringSubmatch with the operator group read as (...)? :
\* at most one operator character is taken
relationMatchOneOp(s) ==
  LET n1 == SpanNotIn(s, OpChars \cup SpaceChars)
      r1 == Drop(s, n1)
      r2 == Drop(r1, SpanIn(r1, SpaceChars))
      n2 == IF r2 # <<>> /\ Head(r2) \in OpChars THEN 1 ELSE 0
      r3 == Drop(r2, n2)
      r4 == Drop(r3, SpanIn(r3, SpaceChars))
      n4 == SpanNotIn(r4, LineEnd)
  IN <<Take(s, Len(s) - Len(r4) + n4), Take(s, n1), Take(r2, n2), Take(r4, n4)>>

\* relationMatch.FindStringSubmatch(s) for
\*   ([^=<>\s]*)\s*((?:=|>|<|>=|<=)*)\s*(.*)?
\* Every part may be empty, so the leftmost match starts at the first byte;
\* each starred part is greedy and nothing after it can fail, so each takes
\* its longest run: the name characters, the spaces, the operator characters
\* (one alternative = | > | < per iteration), the spaces, and the rest of
\* the line (. does not match a newline, so the match ends before the first
\* newline that the second run of spaces did not take).
\* parts[1] is the whole match, parts[2..4] are the groups (Go counts from 0).
relationMatch(s) ==
  LET n1 == SpanNotIn(s, OpChars \cup SpaceChars)
      r1 == Drop(s, n1)
      r2 == Drop(r1, SpanIn(r1, SpaceChars))
      n2 == SpanIn(r2, OpChars)
      r3 == Drop(r2, n2)
      r4 == Drop(r3, SpanIn(r3, SpaceChars))
      n4 == SpanNotIn(r4, LineEnd)
  IN <<Take(s, Len(s) - Len(r4) + n4), Take(s, n1), Take(r2, n2), Take(r4, n4)>>

NoRelation == [Name |-> <<>>, Version |-> <<>>, Sense |-> SenseAny]

\* NewRelation: (*Relation, error); rel is NoRelation (nil) on error
NewRelation(related) ==
  LET parts == relationMatch(related)
  IN IF \E ps \in parseSense(parts[3]) : ps.err
     THEN [err |-> TRUE, rel |-> NoRelation]
     ELSE [err |-> FALSE,
           rel |-> [Name |-> parts[2], Version |-> parts[4],
                    Sense |-> (CHOOSE ps \in parseSense(parts[3]) : TRUE).sense]]

\* Relation.String: fmt.Sprintf("%s%v%s", r.Name, r.Sense, r.Version)
RelationString(rel) == rel.Name \o SenseString(rel.Sense) \o rel.Version

\* Relation.Equal
RelationEqual(a, b) == RelationString(a) = RelationString(b)

\* Relations.addIfMissing
addIfMissing(rels, value) ==
  IF \E i \in 1..Len(rels) : RelationEqual(rels[i], value) THEN rels
  ELSE Append(rels, value)

\* Relations.Set: parse and add if missing; the list is unchanged on error
RelationsSet(rels, value) ==
  LET n == NewRelation(value)
  IN IF n.err THEN [err |-> TRUE, rels |-> rels]
     ELSE [err |-> FALSE, rels |-> addIfMissing(rels, n.rel)]

(***************************************************************************)
(* parsePkg and ParsePackages (rpm.go).                                    *)
(***************************************************************************)
\* The comparison operators parsePkg looks for.
cmpgte == <<">", "=">>
cmplte == <<"<", "=">>
cmpeq == <<"=">>
cmpgt == <<">">>
cmplt == <<"<">>

NoPkg == [Name |-> <<>>, Version |-> <<>>, Sense |-> SenseAny]

\* The case of parsePkg's switch that is taken: the first operator the string
\* contains, tried in the order >=, <=, =, >, <; <<>> is the default case.
pkgOp(pkgString) ==
  IF Contains(pkgString, cmpgte) THEN cmpgte
  ELSE IF Contains(pkgString, cmplte) THEN cmplte
  ELSE IF Contains(pkgString, cmpeq) THEN cmpeq
  ELSE IF Contains(pkgString, cmpgt) THEN cmpgt
  ELSE IF Contains(pkgString, cmplt) THEN cmplt
  ELSE <<>>

\* pkgSense as the taken case sets it
pkgSense(op) ==
  IF op = cmpgte THEN SenseEqual + SenseGreater
  ELSE IF op = cmplte THEN SenseEqual + SenseLess
  ELSE IF op = cmpeq THEN SenseEqual
  ELSE IF op = cmpgt THEN SenseGreater
  ELSE IF op = cmplt THEN SenseLess
  ELSE SenseAny

\* pkgInfo as the taken case sets it: strings.Split(pkgString, op), and
\* append(pkgInfo, pkgString, "") in the default case
pkgInfo(pkgString, op) ==
  IF op = <<>> THEN <<pkgString, <<>>>> ELSE Split(pkgString, op)

\* The end of one iteration: the length check and the rpmSense that is appended
pkgOf(info, sense) ==
  IF Len(info) # 2 THEN [err |-> TRUE, pkg |-> NoPkg]
  ELSE [err |-> FALSE,
        pkg |-> [Name |-> Trim(info[1]), Version |-> Trim(info[2]), Sense |-> sense]]

\* One iteration of parsePkg's loop
parsePkgOp(pkgString, op) == pkgOf(pkgInfo(pkgString, op), pkgSense(op))

parsePkgString(pkgString) == parsePkgOp(pkgString, pkgOp(pkgString))

\* The result of parsePkg from the results of its iterations
parsePkgAll(one) ==
  IF \E i \in 1..Len(one) : one[i].err THEN [err |-> TRUE, parsed |-> <<>>]
  ELSE [err |-> FALSE, parsed |-> [i \in 1..Len(one) |-> one[i].pkg]]

\* parsePkg: (nil, error) at the first string that does not parse
parsePkg(pkgList) ==
  parsePkgAll([i \in 1..Len(pkgList) |-> parsePkgString(pkgList[i])])

\* RPM.FullVersion
FullVersion(r) ==
  IF r.Release # <<>> THEN r.Version \o <<"-">> \o r.Release ELSE r.Version

\* The loop and the append of ParsePackages that make the package provide itself.
SelfProvides(r, parsed) ==
  IF \E i \in 1..Len(parsed) : parsed[i].Name = r.Name
  THEN [i \in 1..Len(parsed) |->
          IF parsed[i].Name = r.Name
          THEN [Name |-> parsed[i].Name, Version |-> r.Version, Sense |-> SenseEqual]
          ELSE parsed[i]]
  ELSE Append(parsed, [Name |-> r.Name, Version |-> r.Version, Sense |-> SenseEqual])

\* RPM.ParsePackages: the lists are parsed in the order Provides, Obsoletes,
\* Suggests, Recommends, Requires, Conflicts; the first error is returned and
\* the lists after it stay nil.
\* The position of the first list whose parsePkg fails, Len(p) + 1 when none does
firstErr(p) ==
  IF \E i \in 1..Len(p) : p[i].err
  THEN CHOOSE i \in 1..Len(p) : p[i].err /\ \A j \in 1..(i - 1) : ~p[j].err
  ELSE Len(p) + 1

\* The fields ParsePackages has assigned when it returns: those before stop
ParsePackagesUpTo(r, p, stop) ==
  [err |-> stop <= Len(p),
   r |-> [r EXCEPT
            !.parsedProvides = IF stop <= 1 THEN <<>> ELSE SelfProvides(r, p[1].parsed),
            !.parsedObsoletes = IF stop <= 2 THEN <<>> ELSE p[2].parsed,
            !.parseSuggests = IF stop <= 3 THEN <<>> ELSE p[3].parsed,
            !.parsedRecommends = IF stop <= 4 THEN <<>> ELSE p[4].parsed,
            !.parsedRequires = IF stop <= 5 THEN <<>> ELSE p[5].parsed,
            !.parsedConflicts = IF stop <= 6 THEN <<>> ELSE p[6].parsed]]

ParsePackagesOf(r, p) == ParsePackagesUpTo(r, p, firstErr(p))

ParsePackages(r) ==
  ParsePackagesOf(r, <<parsePkg(r.Provides), parsePkg(r.Obsoletes),
                       parsePkg(r.Suggests), parsePkg(r.Recommends),
                       parsePkg(r.Requires), parsePkg(r.Conflicts)>>)

\* A map with no keys (make(map...)), and a map assignment m[k] = v.
EmptyMap == [k \in {} |-> 0]
MapSet(m, k, v) == (k :> v) @@ m

\* NewRPM: the RPM struct it builds and the error of ParsePackages
NewRPM(m) ==
  LET m1 == IF m.OS = <<>> THEN [m EXCEPT !.OS = <<"l", "i", "n", "u", "x">>] ELSE m
      rpm == [Name |-> m1.Name, Version |-> m1.Version, Release |-> m1.Release,
              OS |-> m1.OS,
              Description |-> m1.Description, Arch |-> m1.Arch,
              Vendor |-> m1.Vendor, URL |-> m1.URL, Packager |-> m1.Packager,
              Licence |-> m1.Licence,
              Provides |-> m1.Provides, Obsoletes |-> m1.Obsoletes,
              Suggests |-> m1.Suggests, Recommends |-> m1.Recommends,
              Requires |-> m1.Requires, Conflicts |-> m1.Conflicts,
              di |-> <<>>,
              cpio |-> [closed |-> FALSE, records |-> <<>>],
              gzClosed |-> FALSE,
              payloadSize |-> 0,
              basenames |-> <<>>, dirindexes |-> <<>>, filesizes |-> <<>>,
              filemodes |-> <<>>, fileowners |-> <<>>, filegroups |-> <<>>,
              filemtimes |-> <<>>, filedigests |-> <<>>, filelinktos |-> <<>>,
              fileflags |-> <<>>,
              closed |-> FALSE,
              files |-> EmptyMap,
              prein |-> <<>>, postin |-> <<>>, preun |-> <<>>, postun |-> <<>>,
              parsedProvides |-> <<>>, parsedObsoletes |-> <<>>,
              parseSuggests |-> <<>>, parsedRecommends |-> <<>>,
              parsedRequires |-> <<>>, parsedConflicts |-> <<>>]
  IN ParsePackages(rpm)

(***************************************************************************)
(* The directory index (dir.go).                                           *)
(***************************************************************************)
\* NewDirIndex: an empty map and an empty list
NewDirIndex == [m |-> [p \in {} |-> 0], l |-> <<>>]

\* A Get that hands out the length after the append
DirGetFromOne(d, value) ==
  IF value \in DOMAIN d.m
  THEN [idx |-> d.m[value], d |-> d]
  ELSE [idx |-> Len(d.l) + 1,
        d |-> [m |-> [p \in DOMAIN d.m \cup {value} |->
                        IF p = value THEN Len(d.l) + 1 ELSE d.m[p]],
               l |-> Append(d.l, value)]]

\* DirIndex.Get on the struct d: the index returned and the struct afterwards
DirGet(d, value) ==
  IF value \in DOMAIN d.m
  THEN [idx |-> d.m[value], d |-> d]
  ELSE [idx |-> Len(d.l),
        d |-> [m |-> [p \in DOMAIN d.m \cup {value} |->
                        IF p = value THEN Len(d.l) ELSE d.m[p]],
               l |-> Append(d.l, value)]]

\* DirIndex.AllDirs
AllDirs(d) == d.l

\* DirIndex.Get on the list l: the index of value (from 0) and the new list
DirIndexGet(l, value) ==
  IF \E i \in 1..Len(l) : l[i] = value
  THEN [idx |-> (CHOOSE i \in 1..Len(l) : l[i] = value) - 1, l |-> l]
  ELSE [idx |-> Len(l), l |-> Append(l, value)]

(***************************************************************************)
(* Files (rpm.go).                                                         *)
(***************************************************************************)
\* AddFile without its check for the root directory
AddFileWithRoot(files, f) == MapSet(files, f.Name, f)

\* RPM.AddFile on the files map: the root directory is not stored
AddFile(files, f) ==
  IF f.Name = <<"/">> THEN files ELSE MapSet(files, f.Name, f)

\* uint16(x)
Uint16(x) == x % 65536
\* uint32(x), int32(x) of a length or size: the values of the model stay below
\* 2^31, where both conversions change nothing
Uint32(x) == x

\* A writePayload that writes the cpio header alone
writePayloadHeaderOnly(r, f, links) ==
  IF r.cpio.closed THEN [err |-> TRUE, r |-> r]
  ELSE [err |-> FALSE,
        r |-> [r EXCEPT
                 !.cpio.records = Append(@, [Name |-> f.Name, Mode |-> f.Mode,
                                              Size |-> Len(f.Body), Links |-> links,
                                              Body |-> <<>>]),
                 !.payloadSize = @ + Len(f.Body)]]

\* A writePayload that does not add the body to payloadSize
writePayloadUncounted(r, f, links) ==
  IF r.cpio.closed THEN [err |-> TRUE, r |-> r]
  ELSE [err |-> FALSE,
        r |-> [r EXCEPT
                 !.cpio.records = Append(@, [Name |-> f.Name, Mode |-> f.Mode,
                                              Size |-> Len(f.Body), Links |-> links,
                                              Body |-> f.Body])]]

\* RPM.writePayload: one cpio record.  cpio.Writer.WriteHeader fails on a
\* writer that was closed, and then nothing is written or counted.
writePayload(r, f, links) ==
  IF r.cpio.closed THEN [err |-> TRUE, r |-> r]
  ELSE [err |-> FALSE,
        r |-> [r EXCEPT
                 !.cpio.records = Append(@, [Name |-> f.Name, Mode |-> f.Mode,
                                              Size |-> Len(f.Body), Links |-> links,
                                              Body |-> f.Body]),
                 !.payloadSize = @ + Len(f.Body)]]

\* The kind switch of writeFile: "dir", "symlink" or "regular".
\* 040000 = 16384, 0120000 = 40960
FileKind(mode) ==
  IF BitAnd(mode, 16384) # 0 THEN "dir"
  ELSE IF BitAnd(mode, 40960) # 0 THEN "symlink"
  ELSE "regular"

\* RPM.writeFile: append the file to the index arrays, then to the cpio stream.
\* The file's Type goes to fileflags as the revision with file types appends it.
writeFile(r, f) ==
  LET sp == PathSplit(f.Name)
      g == DirIndexGet(r.di, sp.dir)
      kind == FileKind(f.Mode)
      \* 0100000 = 32768
      f1 == IF kind = "regular" THEN [f EXCEPT !.Mode = BitOr(f.Mode, 32768)] ELSE f
      links == IF kind = "dir" THEN 2 ELSE 1
      r1 == [r EXCEPT
               !.di = g.l,
               !.dirindexes = Append(@, g.idx),
               !.basenames = Append(@, sp.file),
               !.fileowners = Append(@, f.Group),
               !.filegroups = Append(@, f.Owner),
               !.filemtimes = Append(@, f.MTime),
               !.fileflags = Append(@, Uint32(f.Type)),
               !.filesizes = Append(@, IF kind = "dir" THEN 4096
                                       ELSE Uint32(Len(f.Body))),
               !.filedigests = Append(@, IF kind = "regular" THEN Sha256Hex(f.Body)
                                         ELSE <<>>),
               !.filelinktos = Append(@, IF kind = "symlink" THEN f.Body ELSE <<>>),
               !.filemodes = Append(@, Uint16(f1.Mode))]
  IN writePayload(r1, f1, links)

\* The loop of Write over the sorted names: stop at the first error
RECURSIVE writeFiles(_, _)
writeFiles(r, fnames) ==
  IF fnames = <<>> THEN [err |-> FALSE, r |-> r]
  ELSE LET w == writeFile(r, r.files[Head(fnames)])
       IN IF w.err THEN w ELSE writeFiles(w.r, Tail(fnames))

(***************************************************************************)
(* The headers built by Write (rpm.go).  An index is a map from the tag    *)
(* to the value given to entry(); index.Add is a map assignment.           *)
(***************************************************************************)
pkgNames(parsed) == [i \in 1..Len(parsed) |-> parsed[i].Name]
pkgVersions(parsed) == [i \in 1..Len(parsed) |-> parsed[i].Version]
pkgFlags(parsed) == [i \in 1..Len(parsed) |-> Uint32(parsed[i].Sense)]

\* The three h.Add calls of one relation block of writeGenIndexes
\* An AddRelations that writes the three tags for an empty list as well
AddRelationsAlways(h, parsed, nameTag, versionTag, flagsTag) ==
  MapSet(MapSet(MapSet(h, nameTag, pkgNames(parsed)),
                versionTag, pkgVersions(parsed)),
         flagsTag, pkgFlags(parsed))

AddRelations(h, parsed, nameTag, versionTag, flagsTag) ==
  IF Len(parsed) > 0
  THEN MapSet(MapSet(MapSet(h, nameTag, pkgNames(parsed)),
                     versionTag, pkgVersions(parsed)),
              flagsTag, pkgFlags(parsed))
  ELSE h

\* The two h.Add calls of one scriptlet block of writeGenIndexes
AddScriptlet(h, body, bodyTag, progTag) ==
  IF body # <<>>
  THEN MapSet(MapSet(h, bodyTag, body), progTag, <<"/", "b", "i", "n", "/", "s", "h">>)
  ELSE h

\* RPM.writeGenIndexes
writeGenIndexes(r, h) ==
  LET h0 == MapSet(MapSet(MapSet(MapSet(h,
                 "tagHeaderI18NTable", <<"C">>),
                 "tagPayloadFormat", <<"c", "p", "i", "o">>),
                 "tagPayloadCompressor", <<"g", "z", "i", "p">>),
                 "tagPayloadFlags", <<"9">>)
      h1 == MapSet(MapSet(MapSet(MapSet(MapSet(h0,
                 "tagSize", Uint32(r.payloadSize)),
                 "tagName", r.Name),
                 "tagVersion", r.Version),
                 "tagRelease", r.Release),
                 "tagOS", r.OS)
      h1a == MapSet(MapSet(MapSet(MapSet(MapSet(MapSet(h1,
                 "tagDescription", r.Description),
                 "tagArch", r.Arch),
                 "tagVendor", r.Vendor),
                 "tagLicence", r.Licence),
                 "tagPackager", r.Packager),
                 "tagURL", r.URL)
      h2 == AddRelations(h1a, r.parsedRequires,
                         "tagRequire", "tagRequireVersion", "tagRequireFlags")
      h3 == AddRelations(h2, r.parsedObsoletes,
                         "tagObsolete", "tagObsoleteVersion", "tagObsoleteFlags")
      h4 == AddRelations(h3, r.parsedConflicts,
                         "tagConflicts", "tagConflictVersion", "tagConflictFlags")
      h5 == AddRelations(h4, r.parsedRecommends,
                         "tagRecommends", "tagRecommendVersion", "tagRecommendFlags")
      h6 == AddRelations(h5, r.parseSuggests,
                         "tagSuggests", "tagSuggestVersion", "tagSuggestFlags")
      h7 == AddRelations(h6, r.parsedProvides,
                         "tagProvides", "tagProvideVersion", "tagProvideFlags")
      h8 == MapSet(h7, "tagSourceRPM",
                   r.Name \o <<"-">> \o FullVersion(r)
                     \o <<".", "s", "r", "c", ".", "r", "p", "m">>)
      h9 == AddScriptlet(h8, r.prein, "tagPrein", "tagPreinProg")
      h10 == AddScriptlet(h9, r.postin, "tagPostin", "tagPostinProg")
      h11 == AddScriptlet(h10, r.preun, "tagPreun", "tagPreunProg")
  IN AddScriptlet(h11, r.postun, "tagPostun", "tagPostunProg")

\* RPM.writeFileIndexes; tagFileFlags holds r.fileflags, as in the revision
\* with file types (all zero for files of no type)
writeFileIndexes(r, h) ==
  LET n == Len(r.dirindexes)
      tags == [tagBasenames |-> r.basenames,
               tagDirindexes |-> r.dirindexes,
               tagDirnames |-> r.di,
               tagFileSizes |-> r.filesizes,
               tagFileModes |-> r.filemodes,
               tagFileUserName |-> r.fileowners,
               tagFileGroupName |-> r.filegroups,
               tagFileMTimes |-> r.filemtimes,
               tagFileDigests |-> r.filedigests,
               tagFileLinkTos |-> r.filelinktos,
               tagFileINodes |-> [ii \in 1..n |-> ii],
               tagFileDigestAlgo |-> [ii \in 1..n |-> 8],
               tagFileVerifyFlags |-> [ii \in 1..n |-> -1],
               tagFileFlags |-> r.fileflags,
               tagFileRDevs |-> [ii \in 1..n |-> 1],
               tagFileLangs |-> [ii \in 1..n |-> <<>>]]
  IN [t \in (DOMAIN h) \cup (DOMAIN tags) |->
        IF t \in DOMAIN tags THEN tags[t] ELSE h[t]]

\* len of a buffer, kept as the buffer it is the length of
LenOf(b) == <<"len", b>>

\* r.payload: the gzip stream of the cpio records written so far
PayloadOf(r) == <<"gzip", r.cpio.records>>

\* A writeSignatures that takes the digest of the header without its file tags
writeSignaturesBeforeFiles(r, h) ==
  [sigSize |-> <<LenOf(PayloadOf(r)), LenOf(h)>>,
   sigSHA256 |-> Sha256Hex(writeGenIndexes(r, EmptyMap)),
   sigPayloadSize |-> Uint32(r.payloadSize)]

\* RPM.writeSignatures: the signature index for the header h.  sigSize is
\* the sum of two lengths, kept as the pair of them.
writeSignatures(r, h) ==
  [sigSize |-> <<LenOf(PayloadOf(r)), LenOf(h)>>,
   sigSHA256 |-> Sha256Hex(h),
   sigPayloadSize |-> Uint32(r.payloadSize)]

(***************************************************************************)
(* Write (rpm.go).                                                         *)
(***************************************************************************)
\* The writes Write makes to its io.Writer, in order.
SinkChunks(r, h, s) ==
  <<[part |-> "lead", name |-> r.Name, fullVersion |-> FullVersion(r)],
    [part |-> "sb", index |-> s],
    [part |-> "pad"],
    [part |-> "hb", index |-> h],
    [part |-> "payload", records |-> r.cpio.records, bytes |-> PayloadOf(r)]>>

\* What the sink holds after a Write whose failAt-th write to it failed
\* (0: none failed), and what that Write returns.
SinkAfter(chunks, failAt) ==
  IF failAt = 0 THEN chunks ELSE SubSeq(chunks, 1, failAt - 1)
RetAfter(failAt) == IF failAt = 0 THEN "nil" ELSE "error"

\* RPM.Write on the RPM r: the RPM afterwards, the error returned before the
\* sink is reached ("nil" for none; "error" stands for the wrapped errors) and
\* the writes it then makes to the sink.  cpio.Writer.Close and
\* gzip.Writer.Close on a closed writer do nothing and return nil.
\* fnames is the keys of r.files in the order in which range yields them.
WriteRanged(r, fnames) ==
  IF r.closed THEN [r |-> r, ret |-> "ErrWriteAfterClose", chunks |-> <<>>]
  ELSE
    LET wf == writeFiles(r, SortedNames(fnames))
    IN IF wf.err THEN [r |-> wf.r, ret |-> "error", chunks |-> <<>>]
       ELSE
         LET r2 == [wf.r EXCEPT !.cpio.closed = TRUE, !.gzClosed = TRUE]
             h == writeFileIndexes(r2, writeGenIndexes(r2, EmptyMap))
             s == writeSignatures(r2, h)
         IN [r |-> r2, ret |-> "nil", chunks |-> SinkChunks(r2, h, s)]

\* RPM.Write where range yields the keys in ascending order; after sort.Strings
\* every order of the keys gives the same fnames
Write(r) == WriteRanged(r, SortStrings(DOMAIN r.files))

\* An order in which the compressor is closed before the cpio writer
WriteOrderGzipFirst ==
  <<"files", "gzClose", "cpioClose", "lead", "header", "signatures",
    "sb", "pad", "hb", "payload">>

\* The statements of RPM.Write after the test of r.closed, in program order:
\* the loop over the files, the two Close calls, w.Write(lead), the regular
\* header, writeSignatures, and the four remaining writes to w
WriteOrder ==
  <<"files", "cpioClose", "gzClose", "lead", "header", "signatures",
    "sb", "pad", "hb", "payload">>

(***************************************************************************)
(* Inputs.                                                                 *)
(***************************************************************************)
NoMeta ==
  [Name |-> <<"a">>, Version |-> <<"1">>, Release |-> <<"2">>, OS |-> <<>>,
   Description |-> <<"d">>, Arch |-> <<"n", "o", "a", "r", "c", "h">>,
   Vendor |-> <<>>, URL |-> <<>>, Packager |-> <<>>, Licence |-> <<"M", "I", "T">>,
   Provides |-> <<>>, Obsoletes |-> <<>>, Suggests |-> <<>>,
   Recommends |-> <<>>, Requires |-> <<>>, Conflicts |-> <<>>]

Paths ==
  {<<"/">>, <<"/", "b">>, <<"/", "a", "/", "b">>, <<"/", "a", "/">>}

\* The file types of RPMFile.Type: none, and %ghost (rpm's RPMFILE_GHOST, 1 << 6)
GenericFile == 0
GhostFile == 64

\* 0644 = 420, 0100644 = 33188, 040755 = 16877, 0120777 = 41471
FileSamples ==
  {[Body |-> <<"X">>, Mode |-> 33188, Owner |-> "testUser", Group |-> "testGroup",
    MTime |-> 1, Type |-> GenericFile],
   [Body |-> <<>>, Mode |-> 420, Owner |-> "", Group |-> "", MTime |-> 0,
    Type |-> GenericFile],
   [Body |-> <<>>, Mode |-> 16877, Owner |-> "root", Group |-> "root", MTime |-> 0,
    Type |-> GenericFile],
   [Body |-> <<"Y", "X">>, Mode |-> 41471, Owner |-> "root", Group |-> "wheel",
    MTime |-> 0, Type |-> GenericFile],
   [Body |-> <<"Y">>, Mode |-> 420, Owner |-> "root", Group |-> "root", MTime |-> 0,
    Type |-> GhostFile]}

RPMFile(name, a) ==
  [Name |-> name, Body |-> a.Body, Mode |-> a.Mode, Owner |-> a.Owner,
   Group |-> a.Group, MTime |-> a.MTime, Type |-> a.Type]

\* A file whose Mode has a bit above the sixteenth: 0200644 = 65956
WideModeFile ==
  [Name |-> <<"/", "b">>, Body |-> <<"X">>, Mode |-> 65956, Owner |-> "root",
   Group |-> "root", MTime |-> 0, Type |-> GenericFile]

\* The files given to AddFile: each path with each sample, the root only as
\* a directory, and the file with the wide mode.
InputFiles ==
  {RPMFile(name, a) : name \in Paths \ {<<"/">>}, a \in FileSamples}
    \cup {RPMFile(<<"/">>, a) : a \in {b \in FileSamples : b.Mode = 16877}}
    \cup {WideModeFile}

Scripts == {<<"e", "c", "h", "o">>}

\* The writes of SinkChunks
NumChunks == 5

(***************************************************************************)
(* The lead (header.go).  Bytes are numbers 0..255, a []byte is a sequence *)
(* of them.                                                                *)
(***************************************************************************)
\* make([]byte, n)
Zeros(n) == [i \in 1..n |-> 0]

\* fmt.Sprintf("%s-%s", name, fullVersion) as bytes ('-' is 45)
LeadName(name, fullVersion) == name \o <<45>> \o fullVersion

\* n = n[:65] when len(n) > 65
CutTo65(n) == IF Len(n) > 65 THEN SubSeq(n, 1, 65) ELSE n

\* n = append(n, make([]byte, 66-len(n))...)
PadTo66(n) == n \o Zeros(66 - Len(n))

\* A lead whose name is cut at 66 bytes, not at 65
leadCutAt66(name, fullVersion) ==
  <<237, 171, 238, 219, 3, 0, 0, 0, 0, 1>>
    \o PadTo66(IF Len(LeadName(name, fullVersion)) > 66
               THEN SubSeq(LeadName(name, fullVersion), 1, 66)
               ELSE LeadName(name, fullVersion))
    \o <<0, 1, 0, 5>> \o Zeros(16)

\* lead
lead(name, fullVersion) ==
  <<237, 171, 238, 219, 3, 0, 0, 0, 0, 1>>
    \o PadTo66(CutTo65(LeadName(name, fullVersion)))
    \o <<0, 1, 0, 5>> \o Zeros(16)

(***************************************************************************)
(* Index entries and index.Bytes (header.go).                              *)
(***************************************************************************)
signatures == 62
immutable == 63
typeInt16 == 3
typeInt32 == 4
typeString == 6
typeBinary == 7
typeStringArray == 8

\* boundaries[rpmtype], 0 when the type is not in the map
boundaries(rpmtype) ==
  IF rpmtype = typeInt16 THEN 2 ELSE IF rpmtype = typeInt32 THEN 4 ELSE 0

\* binary.Write(b, binary.BigEndian, int32(x)): two's complement, four bytes
Int32BE(x) ==
  IF x >= 0
  THEN <<(x \div 16777216) % 256, (x \div 65536) % 256, (x \div 256) % 256, x % 256>>
  ELSE <<128 + (((x + 2147483647) + 1) \div 16777216),
         (((x + 2147483647) + 1) \div 65536) % 256,
         (((x + 2147483647) + 1) \div 256) % 256,
         ((x + 2147483647) + 1) % 256>>

\* binary.Write of an int16 or uint16: two bytes
Int16BE(x) == <<(x % 65536) \div 256, x % 256>>

\* The bytes of a slice of integers
RECURSIVE Int16sBE(_)
Int16sBE(v) == IF v = <<>> THEN <<>> ELSE Int16BE(Head(v)) \o Int16sBE(Tail(v))
RECURSIVE Int32sBE(_)
Int32sBE(v) == IF v = <<>> THEN <<>> ELSE Int32BE(Head(v)) \o Int32sBE(Tail(v))

\* bytes.Join(b, []byte{00}): a NUL between the strings
RECURSIVE JoinNul(_)
JoinNul(v) ==
  IF v = <<>> THEN <<>>
  ELSE IF Len(v) = 1 THEN Head(v)
  ELSE Head(v) \o <<0>> \o JoinNul(Tail(v))

\* NewIndexEntry on a value of one of its types; strings are byte sequences,
\* a time.Time is its Unix() seconds (below 2^31, where int32 changes nothing)
NewIndexEntry(value) ==
  CASE value.kind \in {"[]int16", "[]uint16"} ->
         [err |-> FALSE, rpmtype |-> typeInt16, count |-> Len(value.v),
          data |-> Int16sBE(value.v)]
    [] value.kind \in {"[]int32", "[]uint32"} ->
         [err |-> FALSE, rpmtype |-> typeInt32, count |-> Len(value.v),
          data |-> Int32sBE(value.v)]
    [] value.kind = "string" ->
         [err |-> FALSE, rpmtype |-> typeString, count |-> 1,
          data |-> value.v \o <<0>>]
    [] value.kind = "time.Time" ->
         [err |-> FALSE, rpmtype |-> typeInt32, count |-> 1,
          data |-> Int32sBE(<<value.v>>)]
    [] value.kind = "[]byte" ->
         [err |-> FALSE, rpmtype |-> typeBinary, count |-> Len(value.v),
          data |-> value.v]
    [] value.kind = "[]string" ->
         [err |-> FALSE, rpmtype |-> typeStringArray, count |-> Len(value.v),
          data |-> JoinNul(value.v) \o <<0>>]
    [] OTHER -> [err |-> TRUE, rpmtype |-> 0, count |-> 0, data |-> <<>>]

\* IndexEntry.indexBytes
indexBytes(e, tag, contentOffset) ==
  Int32BE(tag) \o Int32BE(e.rpmtype) \o Int32BE(contentOffset) \o Int32BE(e.count)

\* The keys from the largest down
RECURSIVE sortedTagsDescending(_)
sortedTagsDescending(T) ==
  IF T = {} THEN <<>>
  ELSE <<CHOOSE t \in T : \A u \in T : t >= u>>
         \o sortedTagsDescending(T \ {CHOOSE t \in T : \A u \in T : t >= u})

\* index.sortedTags: sort.Ints on the keys
RECURSIVE sortedTags(_)
sortedTags(T) ==
  IF T = {} THEN <<>>
  ELSE <<CHOOSE t \in T : \A u \in T : t <= u>>
         \o sortedTags(T \ {CHOOSE t \in T : \A u \in T : t <= u})

\* index.Add
IndexAdd(i, tag, e) == [i EXCEPT !.entries = MapSet(@, tag, e)]

\* A pad that aligns every entry to 4 bytes, whatever its type
padAll(w, rpmtype, offset) ==
  IF offset % 4 # 0 THEN w \o Zeros(4 - (offset % 4)) ELSE w

\* pad: zero bytes up to the boundary of an integer type
pad(w, rpmtype, offset) ==
  IF boundaries(rpmtype) # 0 /\ offset % boundaries(rpmtype) # 0
  THEN w \o Zeros(boundaries(rpmtype) - (offset % boundaries(rpmtype)))
  ELSE w

\* The first loop of index.Bytes: entryData after the entries of tags were
\* written after w, and the offsets recorded for them
RECURSIVE entryDataOf(_, _, _)
entryDataOf(entries, tags, w) ==
  IF tags = <<>> THEN w
  ELSE entryDataOf(entries, Tail(tags),
                   pad(w, entries[Head(tags)].rpmtype, Len(w)) \o entries[Head(tags)].data)

RECURSIVE offsetsOf(_, _, _)
offsetsOf(entries, tags, w) ==
  IF tags = <<>> THEN <<>>
  ELSE <<Len(pad(w, entries[Head(tags)].rpmtype, Len(w)))>>
         \o offsetsOf(entries, Tail(tags),
                      pad(w, entries[Head(tags)].rpmtype, Len(w)) \o entries[Head(tags)].data)

\* index.eigenHeader
eigenHeader(i) ==
  NewIndexEntry([kind |-> "[]byte",
                 v |-> Int32BE(i.h) \o Int32BE(typeBinary)
                         \o Int32BE(0 - 16 * (Cardinality(DOMAIN i.entries) + 1))
                         \o Int32BE(16)])

\* The second loop of index.Bytes: the index records of the entries
RECURSIVE indexRecords(_, _, _)
indexRecords(entries, tags, offsets) ==
  IF tags = <<>> THEN <<>>
  ELSE indexBytes(entries[Head(tags)], Head(tags), Head(offsets))
         \o indexRecords(entries, Tail(tags), Tail(offsets))

\* An index.Bytes that declares only the entries that were added
BytesOfAddedOnly(i, tags, offsets, entryData) ==
  <<142, 173, 232, 1, 0, 0, 0, 0>>
    \o Int32BE(Cardinality(DOMAIN i.entries)) \o Int32BE(Len(entryData))
    \o indexBytes(eigenHeader(i), i.h, Len(entryData) - 16)
    \o indexRecords(i.entries, tags, offsets)
    \o entryData

\* What index.Bytes writes to w, given the sorted tags, the offsets and entryData
BytesOf(i, tags, offsets, entryData) ==
  <<142, 173, 232, 1, 0, 0, 0, 0>>
    \o Int32BE(Cardinality(DOMAIN i.entries) + 1) \o Int32BE(Len(entryData))
    \o indexBytes(eigenHeader(i), i.h, Len(entryData) - 16)
    \o indexRecords(i.entries, tags, offsets)
    \o entryData

\* index.Bytes
Bytes(i) ==
  BytesOf(i, sortedTags(DOMAIN i.entries),
          offsetsOf(i.entries, sortedTags(DOMAIN i.entries), <<>>),
          entryDataOf(i.entries, sortedTags(DOMAIN i.entries), <<>>) \o eigenHeader(i).data)

(***************************************************************************)
(* The framing of the output (WriteCustom; the same writes end RPM.Write). *)
(***************************************************************************)
\* RPM.AddTag and RPM.AddSignatureTag
AddTag(r, rpmTag, value) == [r EXCEPT !.normalIndex = IndexAdd(@, rpmTag, value)]
AddSignatureTag(r, rpmTag, value) == [r EXCEPT !.sigIndex = IndexAdd(@, rpmTag, value)]

\* A framing that pads after the immutable header as well
FramePaddingBoth(ld, sb, hb, payload) ==
  <<ld, sb, Zeros((8 - (Len(sb) % 8)) % 8), hb, Zeros((8 - (Len(hb) % 8)) % 8), payload>>

\* The writes to the io.Writer, in order: lead, sb, padding, hb, payload
Frame(ld, sb, hb, payload) ==
  <<ld, sb, Zeros((8 - (Len(sb) % 8)) % 8), hb, payload>>

\* RPM.WriteCustom on an open RPM of the given name and full version
WriteCustom(r, name, fullVersion) ==
  Frame(lead(name, fullVersion), Bytes(r.sigIndex), Bytes(r.normalIndex), r.payload)

(***************************************************************************)
(* The scriptlet registry: per-slot bodies and interpreters, as the spec   *)
(* and interpreter_test.go describe them.                                  *)
(***************************************************************************)
DefaultScriptletInterpreter == "/bin/sh"
MagicLuaMarker == "<lua>"

Slots == {"prein", "postin", "preun", "postun", "pretrans", "posttrans", "verifyscript"}
LuaSlots == {"pretrans", "posttrans"}

\* The registry of a new RPM: no body, no per-slot interpreter, no default
NewScriptlets ==
  [content |-> [x \in Slots |-> ""],
   interpreters |-> [x \in Slots |-> ""],
   defaultInterpreter |-> ""]

\* AddPrein, AddPostin, AddPreun, AddPostun, AddPretrans, AddPosttrans, AddVerifyScript
AddScriptletContent(s, slot, body) == [s EXCEPT !.content[slot] = body]

\* A default setter that also forgets the per-slot interpreters
SetDefaultForgettingOverrides(s, interpreter) ==
  [s EXCEPT !.defaultInterpreter = interpreter,
            !.interpreters = [x \in Slots |-> ""]]

\* SetDefaultScriptletInterpreter
SetDefaultScriptletInterpreter(s, interpreter) ==
  [s EXCEPT !.defaultInterpreter = interpreter]

\* SetScriptletInterpreterFor: an error and no change for an unknown slot name
SetScriptletInterpreterFor(s, name, interpreter) ==
  IF name \notin Slots THEN [err |-> TRUE, s |-> s]
  ELSE [err |-> FALSE, s |-> [s EXCEPT !.interpreters[name] = interpreter]]

\* A resolution in which the default also applies to the Lua slots
ResolvedInterpreterAllSlots(s, slot) ==
  IF s.interpreters[slot] # "" THEN s.interpreters[slot]
  ELSE IF s.defaultInterpreter # "" THEN s.defaultInterpreter
  ELSE IF slot \in LuaSlots THEN MagicLuaMarker
  ELSE DefaultScriptletInterpreter

\* The interpreter a slot resolves to at emission
ResolvedInterpreter(s, slot) ==
  IF s.interpreters[slot] # "" THEN s.interpreters[slot]
  ELSE IF slot \in LuaSlots THEN MagicLuaMarker
  ELSE IF s.defaultInterpreter # "" THEN s.defaultInterpreter
  ELSE DefaultScriptletInterpreter

\* implicitToExplicitScriptlets: (interpreter, content) for the slots with a body
implicitToExplicitScriptlets(s) ==
  [slot \in {x \in Slots : s.content[x] # ""} |->
     [interpreter |-> ResolvedInterpreter(s, slot), content |-> s.content[slot]]]

(***************************************************************************)
(* The state machine: one RPM, its caller and the sink of the last Write.  *)
(***************************************************************************)
VARIABLES
  r,        \* the RPM struct
  newErr,   \* NewRPM returned an error
  ret,      \* what the last Write returned ("none" before the first)
  sink,     \* what the last Write wrote to its io.Writer
  lastAdd,  \* history: path -> the RPMFile of the last AddFile call for it
  prevOk,   \* history: a Write before the last one returned nil
  wrote,    \* history: lastAdd when the last Write was called
  calls,    \* AddFile and scriptlet calls made
  writes,   \* Write calls made
  metaIn,   \* history: the relations the metadata lists were written from
  text,     \* NewRelation: the text parsed
  pcRel,    \* NewRelation: "start", "parsed", "stringed" or "reparsed"
  relOut,   \* NewRelation(text)
  relStr,   \* NewRelation(text).String()
  relOut2   \* NewRelation(relStr)

VARIABLES
  scriptlets,  \* the scriptlet registry
  setErr,      \* the last SetScriptletInterpreterFor returned an error
  scrCall,     \* history: the last call on the registry
  scrBefore,   \* history: the registry before the last call
  lastDefault, \* history: the last default interpreter set ("" for none)
  lastFor,     \* history: slot -> the last interpreter set for it ("" for none)
  scrSteps     \* calls made on the registry

VARIABLES
  leadIn,   \* lead: its arguments
  leadOut   \* lead: its result (<<>> before the call)

VARIABLES
  idxIn,    \* index.Bytes: the index (its entries and its header tag h)
  idxOut,   \* index.Bytes: its result (<<>> before the call)
  idxAdded, \* history: the tags given to index.Add
  idxAdds,  \* index.Add calls made
  dirIdx,   \* the DirIndex
  dirReqs,  \* history: the paths given to DirIndex.Get, in order
  dirRets,  \* history: what each of those Get calls returned
  wcRPM,    \* WriteCustom: the RPM's two indexes and its payload buffer
  wcOut,    \* WriteCustom: the writes it made to its io.Writer (<<>> before)
  wcAdds    \* AddTag and AddSignatureTag calls made

VARIABLES
  rsSet,    \* a Relations slice
  rsAdded   \* history: the relations given to addIfMissing, in order

VARIABLES
  ordR,     \* Write step by step: the RPM
  ordPos,   \* the step of WriteOrder that Write is about to take (0: not in Write)
  ordTodo,  \* the sorted file names Write has still to write
  ordLog,   \* history: what the current Write did to the payload, in order
  ordRet,   \* what the last Write returned ("none" while it runs)
  ordRuns   \* Write calls started

VARIABLES
  entIn,    \* NewIndexEntry: the string array it is given
  entOut    \* NewIndexEntry: its result (count -1 before the call)

VARIABLES
  twoR,     \* two RPMs of equal metadata
  twoTodo,  \* for each of the two, the files still to be added, in its order
  twoOut    \* for each of the two, what its Write sent to the sink (<<>> before)

rpmVars == <<r, newErr, ret, sink, lastAdd, prevOk, wrote, calls, writes, metaIn>>
relVars == <<text, pcRel, relOut, relStr, relOut2>>
scrVars == <<scriptlets, setErr, scrCall, scrBefore, lastDefault, lastFor, scrSteps>>
leadVars == <<leadIn, leadOut>>
idxVars == <<idxIn, idxOut, idxAdded, idxAdds>>
dirVars == <<dirIdx, dirReqs, dirRets>>
frameVars == <<wcRPM, wcOut, wcAdds>>
setVars == <<rsSet, rsAdded>>
ordVars == <<ordR, ordPos, ordTodo, ordLog, ordRet, ordRuns>>
entVars == <<entIn, entOut>>
VARIABLES
  verSig,      \* VerifyRequiredTags: r.sigIndex.entries
  verPayload,  \* VerifyRequiredTags: r.payloadIndex.entries
  verRet       \* VerifyRequiredTags: how the call ended ("none" before it)

twoVars == <<twoR, twoTodo, twoOut>>
verVars == <<verSig, verPayload, verRet>>
lateVars == <<setVars, ordVars, entVars, twoVars, verVars>>
moreVars == <<idxVars, dirVars, frameVars, lateVars>>
auxVars == <<scrVars, leadVars, moreVars>>
vars == <<rpmVars, relVars, auxVars>>

ScrIdle ==
  /\ scriptlets = NewScriptlets
  /\ setErr = FALSE
  /\ scrCall = [op |-> "none", name |-> "", p |-> ""]
  /\ scrBefore = NewScriptlets
  /\ lastDefault = ""
  /\ lastFor = [x \in Slots |-> ""]
  /\ scrSteps = 0

LeadIdle ==
  /\ leadIn = [name |-> <<>>, fullVersion |-> <<>>]
  /\ leadOut = <<>>

IdxIdle ==
  /\ idxIn = [entries |-> EmptyMap, h |-> immutable]
  /\ idxOut = <<>>
  /\ idxAdded = {}
  /\ idxAdds = 0

DirIdle ==
  /\ dirIdx = NewDirIndex
  /\ dirReqs = <<>>
  /\ dirRets = <<>>

FrameIdle ==
  /\ wcRPM = [normalIndex |-> [entries |-> EmptyMap, h |-> immutable],
              sigIndex |-> [entries |-> EmptyMap, h |-> signatures],
              payload |-> <<>>]
  /\ wcOut = <<>>
  /\ wcAdds = 0

SetIdle ==
  /\ rsSet = <<>>
  /\ rsAdded = <<>>

OrdIdle ==
  /\ ordR = NewRPM(NoMeta).r
  /\ ordPos = 0
  /\ ordTodo = <<>>
  /\ ordLog = <<>>
  /\ ordRet = "none"
  /\ ordRuns = 0

NoEntry == [err |-> FALSE, rpmtype |-> 0, count |-> -1, data |-> <<>>]

EntIdle ==
  /\ entIn = <<>>
  /\ entOut = NoEntry

TwoIdle ==
  /\ twoR = <<NewRPM(NoMeta).r, NewRPM(NoMeta).r>>
  /\ twoTodo = <<<<>>, <<>>>>
  /\ twoOut = <<<<>>, <<>>>>

VerIdle == verSig = EmptyMap /\ verPayload = EmptyMap /\ verRet = "none"

LateIdle == SetIdle /\ OrdIdle /\ EntIdle /\ TwoIdle /\ VerIdle

MoreIdle == IdxIdle /\ DirIdle /\ FrameIdle /\ LateIdle

AuxIdle == ScrIdle /\ LeadIdle /\ MoreIdle

NoResult == [err |-> FALSE, rel |-> NoRelation]

RelIdle ==
  /\ text = <<>>
  /\ pcRel = "idle"
  /\ relOut = NoResult
  /\ relStr = <<>>
  /\ relOut2 = NoResult

InitRPM(m) ==
  LET n == NewRPM(m)
  IN /\ r = n.r
     /\ newErr = n.err
     /\ ret = "none"
     /\ sink = <<>>
     /\ lastAdd = EmptyMap
     /\ prevOk = FALSE
     /\ wrote = EmptyMap
     /\ calls = 0
     /\ writes = 0

Init ==
  /\ InitRPM(NoMeta)
  /\ metaIn = <<>>
  /\ RelIdle
  /\ AuxIdle

AddFileCall(f) ==
  /\ ~newErr
  /\ calls < MaxCalls
  /\ r' = [r EXCEPT !.files = AddFile(r.files, f)]
  /\ lastAdd' = MapSet(lastAdd, f.Name, f)
  /\ calls' = calls + 1
  /\ UNCHANGED <<newErr, ret, sink, prevOk, wrote, writes, metaIn, relVars, auxVars>>

Scriptlet(field, body) ==
  /\ ~newErr
  /\ calls < MaxCalls
  /\ r' = [r EXCEPT ![field] = body]
  /\ calls' = calls + 1
  /\ UNCHANGED <<newErr, ret, sink, lastAdd, prevOk, wrote, writes, metaIn, relVars, auxVars>>

AddPrein(s) == Scriptlet("prein", s)
AddPostin(s) == Scriptlet("postin", s)
AddPreun(s) == Scriptlet("preun", s)
AddPostun(s) == Scriptlet("postun", s)

WriteCall ==
  /\ ~newErr
  /\ writes < MaxWrites
  /\ LET w == Write(r)
     IN /\ r' = w.r
        /\ IF w.ret = "nil"
           THEN \E failAt \in 0..NumChunks :
                  /\ ret' = RetAfter(failAt)
                  /\ sink' = SinkAfter(w.chunks, failAt)
           ELSE /\ ret' = w.ret
                /\ sink' = <<>>
  /\ prevOk' = (prevOk \/ ret = "nil")
  /\ wrote' = lastAdd
  /\ writes' = writes + 1
  /\ UNCHANGED <<newErr, lastAdd, calls, metaIn, relVars, auxVars>>

Next ==
  \/ \E f \in InputFiles : AddFileCall(f)
  \/ \E s \in Scripts : AddPrein(s)
  \/ \E s \in Scripts : AddPostin(s)
  \/ \E s \in Scripts : AddPreun(s)
  \/ \E s \in Scripts : AddPostun(s)
  \/ WriteCall

Spec == Init /\ [][Next]_vars

(***************************************************************************)
(* NewRPM on metadata with relation lists, then Write to a sink that does  *)
(* not fail.                                                               *)
(***************************************************************************)
SeqsUpTo(S, n) == UNION {[1..k -> S] : k \in 0..n}

ValidOps == {<<>>, <<"<">>, <<">">>, <<"=">>, <<"<", "=">>, <<">", "=">>}
BadOps == {<<"=", "=">>, <<"=", "<">>, <<"=", ">">>, <<"<", ">">>, <<">", "<">>}

\* The relations a metadata list is written from: a name alone, or a name,
\* an operator string and a version.
RelInputs ==
  {[name |-> n, op |-> o, ver |-> IF o = <<>> THEN <<>> ELSE <<"1">>] :
     n \in {<<"a">>, <<"p">>}, o \in ValidOps \cup BadOps}

\* "name" or "name OP version"
RelText(t) ==
  IF t.op = <<>> THEN t.name ELSE t.name \o <<" ">> \o t.op \o <<" ">> \o t.ver

Categories ==
  {"Provides", "Obsoletes", "Suggests", "Recommends", "Requires", "Conflicts"}

Releases == {<<>>, <<"2">>}

InitMeta ==
  /\ \E cat \in Categories, rels \in SeqsUpTo(RelInputs, MaxRels), rel \in Releases :
       /\ metaIn = [cat |-> cat, rels |-> rels]
       /\ InitRPM([NoMeta EXCEPT ![cat] = [i \in 1..Len(rels) |-> RelText(rels[i])],
                                 !.Release = rel])
  /\ RelIdle
  /\ AuxIdle

WriteToGoodSink == WriteCall /\ ret' = "nil"

NextMeta == WriteToGoodSink

SpecMeta == InitMeta /\ [][NextMeta]_vars

(***************************************************************************)
(* NewRelation on a text, String on its result, NewRelation on that.       *)
(***************************************************************************)
RelAlphabet == {"a", "1", " ", "=", "<", ">"}

\* Texts with the other white space of \s: a tab, a form feed, a carriage
\* return or a newline around the operator, and a newline inside the rest
WhiteTexts ==
  { <<"a", "\t", "=", "1">>, <<"a", "=", "\f", "1">>, <<"a", "\r", "1">>,
    <<"a", "\n", ">", "=", "\n", "1">>, <<"a", "=", "1", "\n", "b">>,
    <<"a", "=", "=", "\n", "1">>, <<"a", "\n", "b", "=", "1">>,
    <<"a", "<", "1", " ", "\n">> }

InitRel ==
  /\ InitRPM(NoMeta)
  /\ metaIn = <<>>
  /\ text \in SeqsUpTo(RelAlphabet, MaxText) \cup WhiteTexts
  /\ pcRel = "start"
  /\ relOut = NoResult
  /\ relStr = <<>>
  /\ relOut2 = NoResult
  /\ AuxIdle

ParseText ==
  /\ pcRel = "start"
  /\ relOut' = NewRelation(text)
  /\ pcRel' = "parsed"
  /\ UNCHANGED <<text, relStr, relOut2, rpmVars, auxVars>>

StringOfRelation ==
  /\ pcRel = "parsed"
  /\ ~relOut.err
  /\ relStr' = RelationString(relOut.rel)
  /\ pcRel' = "stringed"
  /\ UNCHANGED <<text, relOut, relOut2, rpmVars, auxVars>>

ParseString ==
  /\ pcRel = "stringed"
  /\ relOut2' = NewRelation(relStr)
  /\ pcRel' = "reparsed"
  /\ UNCHANGED <<text, relOut, relStr, rpmVars, auxVars>>

NextRel == ParseText \/ StringOfRelation \/ ParseString

SpecRel == InitRel /\ [][NextRel]_vars

(***************************************************************************)
(* Properties of Write (Spec).                                             *)
(***************************************************************************)
\* The last Write returned nil: the sink then holds all its writes, the
\* header index and the cpio records among them.
Emitted == ret = "nil"
HB == sink[4].index
Records == sink[5].records
NumEntries == Len(HB.tagBasenames)
\* dirnames[dirindexes[i]] + basenames[i] (i counts from 1)
FullPath(i) == HB.tagDirnames[HB.tagDirindexes[i] + 1] \o HB.tagBasenames[i]
\* The paths the AddFile calls before the last Write have stored
StoredPaths == (DOMAIN wrote) \ {<<"/">>}

\* C1: once a Write has returned nil, every later Write returns
\* ErrWriteAfterClose and writes nothing to its sink.
C1_WriteAfterClose == prevOk => (ret = "ErrWriteAfterClose" /\ sink = <<>>)

\* C2: after Write, each entry's fileowners value is the Owner and its
\* filegroups value is the Group of the RPMFile added for its path.
C2_OwnerAndGroup ==
  Emitted =>
    \A i \in 1..NumEntries :
      /\ FullPath(i) \in StoredPaths
      /\ HB.tagFileUserName[i] = wrote[FullPath(i)].Owner
      /\ HB.tagFileGroupName[i] = wrote[FullPath(i)].Group

\* C3: a file added with mode & 0170000 = 0100000 is recorded as a regular
\* file: its mode as given, no link target, size len(body), digest the
\* SHA-256 of the body.  0170000 = 61440, 0100000 = 32768
C3_RegularTypeBits ==
  Emitted =>
    \A i \in 1..NumEntries :
      (/\ FullPath(i) \in StoredPaths
       /\ BitAnd(wrote[FullPath(i)].Mode, 61440) = 32768)
      => /\ HB.tagFileModes[i] = wrote[FullPath(i)].Mode
         /\ HB.tagFileLinkTos[i] = <<>>
         /\ HB.tagFileSizes[i] = Len(wrote[FullPath(i)].Body)
         /\ HB.tagFileDigests[i] = Sha256Hex(wrote[FullPath(i)].Body)

\* C4: after Write, the full paths rebuilt from the emitted arrays are
\* exactly the stored paths, in strictly ascending byte order, and the cpio
\* records are written in that same order.
C4_SortedPaths ==
  Emitted =>
    /\ {FullPath(i) : i \in 1..NumEntries} = StoredPaths
    /\ \A i \in 1..(NumEntries - 1) : StrLess(FullPath(i), FullPath(i + 1))
    /\ Len(Records) = NumEntries
    /\ \A i \in 1..NumEntries : Records[i].Name = FullPath(i)

\* C4's case: three files were emitted by a Write that returned nil
C4_Witness == Emitted /\ NumEntries = 3 /\ Len(Records) = 3

\* C5: a path added more than once gets exactly one entry and one cpio
\* record, carrying the body, mode, owner, group and mtime of the last
\* AddFile call for it (the mode with the regular-file bit when it had no
\* type bits).
C5_LastAddWins ==
  Emitted =>
    \A p \in StoredPaths :
      /\ Cardinality({i \in 1..NumEntries : FullPath(i) = p}) = 1
      /\ Cardinality({i \in 1..Len(Records) : Records[i].Name = p}) = 1
      /\ \A i \in 1..NumEntries :
           FullPath(i) = p =>
             /\ HB.tagFileModes[i] \in {wrote[p].Mode, BitOr(wrote[p].Mode, 32768)}
             /\ HB.tagFileUserName[i] = wrote[p].Owner
             /\ HB.tagFileGroupName[i] = wrote[p].Group
             /\ HB.tagFileMTimes[i] = wrote[p].MTime
      /\ \A i \in 1..Len(Records) :
           Records[i].Name = p => Records[i].Body = wrote[p].Body

\* The arrays of the file table
FileArrayTags ==
  {"tagBasenames", "tagDirindexes", "tagFileSizes", "tagFileModes",
   "tagFileDigests", "tagFileLinkTos", "tagFileUserName", "tagFileGroupName",
   "tagFileMTimes", "tagFileFlags", "tagFileINodes", "tagFileDigestAlgo",
   "tagFileVerifyFlags", "tagFileRDevs", "tagFileLangs"}

\* C6: after Write, all the arrays of the file table have the same length,
\* the number of distinct paths stored by AddFile ("/" stores nothing).
C6_ArrayLengths ==
  Emitted =>
    \A t \in FileArrayTags :
      /\ t \in DOMAIN HB
      /\ Len(HB[t]) = Cardinality(StoredPaths)

\* C6's case: a Write returned nil after AddFile calls for "/" and for two
\* other paths
C6_Witness ==
  /\ Emitted
  /\ <<"/">> \in DOMAIN wrote
  /\ Cardinality(StoredPaths) = 2
  /\ NumEntries = 2


(***************************************************************************)
(* Properties of NewRPM and of the emitted Provides (SpecMeta).            *)
(***************************************************************************)
\* The positions of the emitted Provides arrays that name the package
SelfEntries ==
  IF "tagProvides" \in DOMAIN HB
  THEN {i \in 1..Len(HB.tagProvides) : HB.tagProvides[i] = r.Name}
  ELSE {}

\* C7: the Provides arrays emitted by Write contain exactly one entry whose
\* name is the package name, with version FullVersion (version, or
\* version-release when the release is not empty) and sense Equal.
C7_SelfProvides ==
  Emitted =>
    /\ Cardinality(SelfEntries) = 1
    /\ \A i \in SelfEntries :
         /\ HB.tagProvideVersion[i] =
              (IF r.Release # <<>> THEN r.Version \o <<"-">> \o r.Release
               ELSE r.Version)
         /\ HB.tagProvideFlags[i] = SenseEqual

\* C9: NewRPM returns an error whenever a relation string of a metadata list
\* uses one of the operator strings ==, =<, =>, <>, >< between name and
\* version.
C9_BadOperatorRejected ==
  (metaIn # <<>> /\ \E i \in 1..Len(metaIn.rels) : metaIn.rels[i].op \in BadOps)
    => newErr

(***************************************************************************)
(* Properties of NewRelation (SpecRel).                                    *)
(***************************************************************************)
\* text is n name characters, a spaces, o operator characters, b spaces and
\* a rest, each run as long as it can be.
EndsRun(t, k, C) == k = Len(t) \/ t[k + 1] \notin C
IsDecomposition(t, n, a, o, b) ==
  /\ n + a + o + b <= Len(t)
  /\ \A k \in 1..n : t[k] \notin OpChars \cup SpaceChars
  /\ n < Len(t) => t[n + 1] \in OpChars \cup SpaceChars
  /\ \A k \in (n + 1)..(n + a) : t[k] \in SpaceChars
  /\ EndsRun(t, n + a, SpaceChars)
  /\ \A k \in (n + a + 1)..(n + a + o) : t[k] \in OpChars
  /\ EndsRun(t, n + a + o, OpChars)
  /\ \A k \in (n + a + o + 1)..(n + a + o + b) : t[k] \in SpaceChars
  /\ EndsRun(t, n + a + o + b, SpaceChars)

\* The sense each accepted operator run stands for
SenseOfRun(ops) ==
  CASE ops = <<>> -> SenseAny
    [] ops = <<"<">> -> SenseLess
    [] ops = <<">">> -> SenseGreater
    [] ops = <<"=">> -> SenseEqual
    [] ops = <<"<", "=">> -> SenseLess + SenseEqual
    [] ops = <<">", "=">> -> SenseGreater + SenseEqual

\* The rest of text from position k on, up to its first newline
RestOfLine(t, k) ==
  SubSeq(t, k, CHOOSE e \in (k - 1)..Len(t) :
                 /\ \A j \in k..e : t[j] \notin LineEnd
                 /\ (e = Len(t) \/ t[e + 1] \in LineEnd))

\* C8: NewRelation(text) succeeds exactly when the run of operator characters
\* between the name and the version is empty or one of <, >, =, <=, >=, with
\* the sense of that run and the name and the version without the white
\* space around the run (the version is what the line holds after it); for
\* the runs ==, =<, =>, <>, >< (and every other run) it returns an error and
\* no Relation.
C8_SixOperators ==
  pcRel # "start" =>
    /\ \E n, a, o, b \in 0..Len(text) : IsDecomposition(text, n, a, o, b)
    /\ \A n, a, o, b \in 0..Len(text) :
         IsDecomposition(text, n, a, o, b) =>
           LET ops == SubSeq(text, n + a + 1, n + a + o)
           IN /\ relOut.err <=> ops \notin ValidOps
              /\ ops \in BadOps => relOut.err
              /\ relOut.err => relOut.rel = NoRelation
              /\ ~relOut.err =>
                   /\ relOut.rel.Name = SubSeq(text, 1, n)
                   /\ relOut.rel.Sense = SenseOfRun(ops)
                   /\ relOut.rel.Version = RestOfLine(text, n + a + o + b + 1)

\* C8's case: "a >= 1" has been parsed, with spaces around the operator
C8_Witness ==
  /\ pcRel = "parsed"
  /\ text = <<"a", " ", ">", "=", "1">>
  /\ ~relOut.err
  /\ relOut.rel = [Name |-> <<"a">>, Version |-> <<"1">>, Sense |-> 12]

\* C10: for every text NewRelation accepts, the String of the result has no
\* spaces, NewRelation accepts it, and the String of that result is the same
\* string.
C10_ParseStringFixpoint ==
  pcRel = "reparsed" =>
    /\ \A k \in 1..Len(relStr) : relStr[k] # " "
    /\ ~relOut2.err
    /\ RelationString(relOut2.rel) = relStr

(***************************************************************************)
(* Ghost files (Spec).                                                     *)
(***************************************************************************)
\* The body bytes of the files last added for the paths P
RECURSIVE BodyBytes(_)
BodyBytes(P) ==
  IF P = {} THEN 0
  ELSE LET p == CHOOSE q \in P : TRUE
       IN Len(wrote[p].Body) + BodyBytes(P \ {p})

GhostPaths == {p \in StoredPaths : wrote[p].Type = GhostFile}

\* C11: a file added with the Ghost type is in the header file tables with
\* the Ghost bit in its fileflags entry, has no cpio record and adds nothing
\* to the payload size; every other file has exactly one cpio record.
C11_GhostNoPayload ==
  Emitted =>
    /\ \A p \in GhostPaths :
         /\ \E i \in 1..NumEntries :
              FullPath(i) = p /\ BitAnd(HB.tagFileFlags[i], GhostFile) = GhostFile
         /\ \A k \in 1..Len(Records) : Records[k].Name # p
    /\ \A p \in StoredPaths \ GhostPaths :
         Cardinality({k \in 1..Len(Records) : Records[k].Name = p}) = 1
    /\ HB.tagSize = BodyBytes(StoredPaths \ GhostPaths)

(***************************************************************************)
(* Calls on the scriptlet registry of one RPM (SpecScript).                *)
(***************************************************************************)
DefaultInputs == {"", "/bin/test", "/foo/bar"}
ForInputs == {"/bin/test", "/bin/other"}
SlotNames == Slots \cup {"mistake"}

InitScript ==
  /\ InitRPM(NoMeta)
  /\ metaIn = <<>>
  /\ RelIdle
  /\ AuxIdle

AddScriptletCall(slot) ==
  /\ scrSteps < MaxScrCalls
  /\ scriptlets' = AddScriptletContent(scriptlets, slot, "echo")
  /\ setErr' = FALSE
  /\ scrCall' = [op |-> "add", name |-> slot, p |-> ""]
  /\ scrBefore' = scriptlets
  /\ scrSteps' = scrSteps + 1
  /\ UNCHANGED <<lastDefault, lastFor, rpmVars, relVars, leadVars, moreVars>>

SetDefaultCall(p) ==
  /\ scrSteps < MaxScrCalls
  /\ scriptlets' = SetDefaultScriptletInterpreter(scriptlets, p)
  /\ setErr' = FALSE
  /\ scrCall' = [op |-> "setDefault", name |-> "", p |-> p]
  /\ scrBefore' = scriptlets
  /\ lastDefault' = p
  /\ scrSteps' = scrSteps + 1
  /\ UNCHANGED <<lastFor, rpmVars, relVars, leadVars, moreVars>>

SetForCall(name, p) ==
  /\ scrSteps < MaxScrCalls
  /\ scriptlets' = SetScriptletInterpreterFor(scriptlets, name, p).s
  /\ setErr' = SetScriptletInterpreterFor(scriptlets, name, p).err
  /\ scrCall' = [op |-> "setFor", name |-> name, p |-> p]
  /\ scrBefore' = scriptlets
  /\ lastFor' = IF setErr' THEN lastFor ELSE [lastFor EXCEPT ![name] = p]
  /\ scrSteps' = scrSteps + 1
  /\ UNCHANGED <<lastDefault, rpmVars, relVars, leadVars, moreVars>>

NextScript ==
  \/ \E slot \in Slots : AddScriptletCall(slot)
  \/ \E p \in DefaultInputs : SetDefaultCall(p)
  \/ \E name \in SlotNames, p \in ForInputs : SetForCall(name, p)

SpecScript == InitScript /\ [][NextScript]_vars

\* The interpreter emitted for a slot with a body agrees with the resolution
EmittedAsResolved ==
  \A slot \in DOMAIN implicitToExplicitScriptlets(scriptlets) :
    implicitToExplicitScriptlets(scriptlets)[slot].interpreter
      = ResolvedInterpreter(scriptlets, slot)

\* C12: a non-Lua slot with no interpreter of its own resolves to the last
\* default set, or to /bin/sh when none was set or the last one was empty;
\* pretrans and posttrans with no interpreter of their own resolve to <lua>
\* whatever default was set.
C12_DefaultInterpreter ==
  /\ EmittedAsResolved
  /\ \A slot \in Slots :
       lastFor[slot] = "" =>
         ResolvedInterpreter(scriptlets, slot) =
           (IF slot \in {"pretrans", "posttrans"} THEN "<lua>"
            ELSE IF lastDefault = "" THEN "/bin/sh"
            ELSE lastDefault)

\* C12's case: a default was set, prein and pretrans have bodies and no
\* interpreter of their own
C12_Witness ==
  /\ lastDefault = "/bin/test"
  /\ scriptlets.content["prein"] # ""
  /\ scriptlets.content["pretrans"] # ""
  /\ lastFor["prein"] = ""
  /\ lastFor["pretrans"] = ""

\* C13: once SetScriptletInterpreterFor(slot, p) has succeeded, the slot
\* resolves to p after any later default setting and scriptlet adding; with a
\* name that is no slot it returns an error and changes nothing.
C13_StickyOverride ==
  /\ EmittedAsResolved
  /\ \A slot \in Slots :
       lastFor[slot] # "" => ResolvedInterpreter(scriptlets, slot) = lastFor[slot]
  /\ (scrCall.op = "setFor" /\ scrCall.name \notin Slots)
       => (setErr /\ scriptlets = scrBefore)

\* C13's case: posttrans got an interpreter of its own, then the default was set
C13_Witness ==
  /\ lastFor["posttrans"] = "/bin/test"
  /\ scrCall.op = "setDefault"
  /\ scrCall.p = "/foo/bar"

(***************************************************************************)
(* lead on a name and a full version (SpecLead).                           *)
(***************************************************************************)
\* A name of n bytes: letters a.. in turn (97 is 'a')
NameOfLen(n) == [i \in 1..n |-> 97 + (i % 26)]

\* "", "1", "1-2", and a version that alone is longer than the name field
LeadVersions ==
  {<<>>, <<49>>, <<49, 45, 50>>, [i \in 1..67 |-> 48 + (i % 10)]}

InitLead ==
  /\ InitRPM(NoMeta)
  /\ metaIn = <<>>
  /\ RelIdle
  /\ ScrIdle
  /\ MoreIdle
  /\ \E n \in 0..MaxLeadName, v \in LeadVersions :
       leadIn = [name |-> NameOfLen(n), fullVersion |-> v]
  /\ leadOut = <<>>

LeadCall ==
  /\ leadOut = <<>>
  /\ leadOut' = lead(leadIn.name, leadIn.fullVersion)
  /\ UNCHANGED <<leadIn, rpmVars, relVars, scrVars, moreVars>>

NextLead == LeadCall

SpecLead == InitLead /\ [][NextLead]_vars

\* name-FullVersion as given to lead
Joined == leadIn.name \o <<45>> \o leadIn.fullVersion
KeptBytes == IF Len(Joined) < 65 THEN Len(Joined) ELSE 65

\* C14: lead returns 96 bytes: the prefix ED AB EE DB 03 00 00 00 00 01, a
\* 66-byte name field with the first min(len, 65) bytes of name-FullVersion
\* and then only NUL bytes, then 00 01 00 05 and 16 zero bytes.
C14_Lead ==
  leadOut # <<>> =>
    /\ Len(leadOut) = 96
    /\ SubSeq(leadOut, 1, 10) = <<237, 171, 238, 219, 3, 0, 0, 0, 0, 1>>
    /\ \A i \in 1..KeptBytes : leadOut[10 + i] = Joined[i]
    /\ \A i \in (KeptBytes + 1)..66 : leadOut[10 + i] = 0
    /\ leadOut[76] = 0
    /\ SubSeq(leadOut, 77, 80) = <<0, 1, 0, 5>>
    /\ \A i \in 81..96 : leadOut[i] = 0

\* C14's case: lead was called with a name-FullVersion longer than 65 bytes
C14_Witness == leadOut # <<>> /\ Len(Joined) > 65 /\ Len(leadIn.name) < 65

(***************************************************************************)
(* index.Add calls and then index.Bytes on one index (SpecIndex).          *)
(***************************************************************************)
IndexTags == {1000, 1004, 1009, 1028}
HeaderTags == {signatures, immutable}

\* Values of every type NewIndexEntry takes, of even and odd lengths
EntryValues ==
  << [kind |-> "[]int16", v |-> <<258>>],
    [kind |-> "[]uint16", v |-> <<1, 2, 3>>],
    [kind |-> "[]int32", v |-> <<16909060>>],
    [kind |-> "string", v |-> <<97, 98>>],
    [kind |-> "time.Time", v |-> 1],
    [kind |-> "[]byte", v |-> <<9>>],
    [kind |-> "[]string", v |-> <<<<97>>, <<98, 99>>>>] >>

InitIndex ==
  /\ InitRPM(NoMeta)
  /\ metaIn = <<>>
  /\ RelIdle
  /\ ScrIdle
  /\ LeadIdle
  /\ DirIdle
  /\ FrameIdle
  /\ LateIdle
  /\ \E h \in HeaderTags : idxIn = [entries |-> EmptyMap, h |-> h]
  /\ idxOut = <<>>
  /\ idxAdded = {}
  /\ idxAdds = 0

AddCall(tag, value) ==
  /\ idxOut = <<>>
  /\ idxAdds < MaxAdds
  /\ idxIn' = IndexAdd(idxIn, tag, NewIndexEntry(value))
  /\ idxAdded' = idxAdded \cup {tag}
  /\ idxAdds' = idxAdds + 1
  /\ UNCHANGED <<idxOut, rpmVars, relVars, scrVars, leadVars, dirVars, frameVars, lateVars>>

BytesCall ==
  /\ idxOut = <<>>
  /\ idxOut' = Bytes(idxIn)
  /\ UNCHANGED <<idxIn, idxAdded, idxAdds, rpmVars, relVars, scrVars, leadVars, dirVars, frameVars, lateVars>>

NextIndex ==
  \/ \E tag \in IndexTags, n \in 1..Len(EntryValues) : AddCall(tag, EntryValues[n])
  \/ BytesCall

SpecIndex == InitIndex /\ [][NextIndex]_vars

\* The big-endian number in the four bytes of b after the first off bytes
Int32At(b, off) ==
  ((b[off + 1] * 256 + b[off + 2]) * 256 + b[off + 3]) * 256 + b[off + 4]

\* What the output of index.Bytes declares, and where its regions are
DeclaredCount == Int32At(idxOut, 8)
DeclaredSize == Int32At(idxOut, 12)
DataStart == 16 + 16 * (1 + Cardinality(idxAdded))
DataRegion == SubSeq(idxOut, DataStart + 1, Len(idxOut))

\* The k-th index record after the record of the header itself
RecTag(k) == Int32At(idxOut, 16 + 16 * k)
RecType(k) == Int32At(idxOut, 20 + 16 * k)
RecOffset(k) == Int32At(idxOut, 24 + 16 * k)
RecData(k) == idxIn.entries[RecTag(k)].data

\* Where the data of the entry before the k-th ends
PrevEnd(k) == IF k = 1 THEN 0 ELSE RecOffset(k - 1) + Len(RecData(k - 1))

\* The bytes of all entries, without any padding
RECURSIVE DataBytes(_, _)
DataBytes(entries, T) ==
  IF T = {} THEN 0
  ELSE Len(entries[CHOOSE t \in T : TRUE].data)
         + DataBytes(entries, T \ {CHOOSE t \in T : TRUE})

\* C15: the output of index.Bytes starts with 8E AD E8 01 00 00 00 00,
\* declares one entry more than the distinct tags that were added, and
\* declares as its size the length of everything after the index records,
\* which ends with the 16 bytes of the header's own record.
C15_IndexHeader ==
  idxOut # <<>> =>
    /\ SubSeq(idxOut, 1, 8) = <<142, 173, 232, 1, 0, 0, 0, 0>>
    /\ DeclaredCount = 1 + Cardinality(idxAdded)
    /\ DeclaredSize = Len(idxOut) - DataStart
    /\ DeclaredSize >= 16 + DataBytes(idxIn.entries, idxAdded)
    /\ SubSeq(idxOut, Len(idxOut) - 15, Len(idxOut))
         = Int32BE(idxIn.h) \o Int32BE(typeBinary)
             \o Int32BE(0 - 16 * DeclaredCount) \o Int32BE(16)

\* A tag was added twice and the data region holds padding
C15_Witness ==
  /\ idxOut # <<>>
  /\ idxAdds > Cardinality(idxAdded)
  /\ Cardinality(idxAdded) >= 2
  /\ DeclaredSize > 16 + DataBytes(idxIn.entries, idxAdded)

\* C16: in the output of index.Bytes the offset recorded for an int16 entry
\* is a multiple of 2 and for an int32 entry a multiple of 4, the data of
\* every entry starts in the data region at the offset recorded for it, and
\* a string, binary or string-array entry starts where the entry before it
\* ends.
C16_Alignment ==
  idxOut # <<>> =>
    \A k \in 1..Cardinality(idxAdded) :
      /\ RecTag(k) \in idxAdded
      /\ \A j \in 1..(k - 1) : RecTag(j) # RecTag(k)
      /\ RecType(k) = idxIn.entries[RecTag(k)].rpmtype
      /\ RecType(k) = typeInt16 => RecOffset(k) % 2 = 0
      /\ RecType(k) = typeInt32 => RecOffset(k) % 4 = 0
      /\ RecOffset(k) >= PrevEnd(k)
      /\ RecOffset(k) + Len(RecData(k)) <= Len(DataRegion) - 16
      /\ SubSeq(DataRegion, RecOffset(k) + 1, RecOffset(k) + Len(RecData(k))) = RecData(k)
      /\ RecType(k) \in {typeString, typeBinary, typeStringArray}
           => RecOffset(k) = PrevEnd(k)

\* An int32 entry had to be padded, and a string entry follows an odd end
C16_Witness ==
  /\ idxOut # <<>>
  /\ \E k \in 1..Cardinality(idxAdded) :
       RecType(k) = typeInt32 /\ PrevEnd(k) % 4 # 0
  /\ \E k \in 1..Cardinality(idxAdded) :
       RecType(k) = typeString /\ PrevEnd(k) % 2 = 1

(***************************************************************************)
(* The signature header of a Write (Spec).                                 *)
(***************************************************************************)
SB == sink[2].index

\* The body bytes of the cpio records rs
RECURSIVE RecordBytes(_)
RecordBytes(rs) ==
  IF rs = <<>> THEN 0 ELSE Len(Head(rs).Body) + RecordBytes(Tail(rs))

\* C17: in every output of Write the sigSHA256 tag of the signature header
\* is the SHA-256 of the immutable header that Write sends to the sink.
C17_HeaderDigest == Emitted => SB.sigSHA256 = Sha256Hex(HB)

\* A package with two files was written
C17_Witness == Emitted /\ NumEntries >= 2

\* C18: in every output of Write the size tag of the immutable header and the
\* payload-size tag of the signature header both hold the number of body
\* bytes written to the cpio stream, and the size tag of the signature header
\* is the length of the payload buffer plus the length of the immutable header
\* that are sent to the sink.
C18_Sizes ==
  Emitted =>
    /\ HB.tagSize = SB.sigPayloadSize
    /\ HB.tagSize = RecordBytes(Records)
    /\ SB.sigSize = <<LenOf(sink[5].bytes), LenOf(HB)>>

\* A package with two non-empty bodies was written
C18_Witness ==
  /\ Emitted
  /\ RecordBytes(Records) >= 2
  /\ \E i, j \in 1..Len(Records) : i # j /\ Records[i].Body # <<>> /\ Records[j].Body # <<>>

(***************************************************************************)
(* AddTag and AddSignatureTag calls and then WriteCustom (SpecFrame).      *)
(***************************************************************************)
NormalTags == {1000, 1004}
SigTags == {273, 1000}
Payloads == {<<>>, <<31, 139, 8>>}

InitFrame ==
  /\ InitRPM(NoMeta)
  /\ metaIn = <<>>
  /\ RelIdle
  /\ ScrIdle
  /\ LeadIdle
  /\ IdxIdle
  /\ DirIdle
  /\ LateIdle
  /\ \E p \in Payloads :
       wcRPM = [normalIndex |-> [entries |-> EmptyMap, h |-> immutable],
                sigIndex |-> [entries |-> EmptyMap, h |-> signatures],
                payload |-> p]
  /\ wcOut = <<>>
  /\ wcAdds = 0

AddTagCall(tag, value) ==
  /\ wcOut = <<>>
  /\ wcAdds < MaxAdds
  /\ wcRPM' = AddTag(wcRPM, tag, NewIndexEntry(value))
  /\ wcAdds' = wcAdds + 1
  /\ UNCHANGED <<wcOut, rpmVars, relVars, scrVars, leadVars, idxVars, dirVars, lateVars>>

AddSignatureTagCall(tag, value) ==
  /\ wcOut = <<>>
  /\ wcAdds < MaxAdds
  /\ wcRPM' = AddSignatureTag(wcRPM, tag, NewIndexEntry(value))
  /\ wcAdds' = wcAdds + 1
  /\ UNCHANGED <<wcOut, rpmVars, relVars, scrVars, leadVars, idxVars, dirVars, lateVars>>

WriteCustomCall ==
  /\ wcOut = <<>>
  /\ wcOut' = WriteCustom(wcRPM, r.Name, FullVersion(r))
  /\ UNCHANGED <<wcRPM, wcAdds, rpmVars, relVars, scrVars, leadVars, idxVars, dirVars, lateVars>>

NextFrame ==
  \/ \E tag \in NormalTags, n \in 1..Len(EntryValues) : AddTagCall(tag, EntryValues[n])
  \/ \E tag \in SigTags, n \in 1..Len(EntryValues) : AddSignatureTagCall(tag, EntryValues[n])
  \/ WriteCustomCall

SpecFrame == InitFrame /\ [][NextFrame]_vars

\* All bytes of a sequence of writes
RECURSIVE Flat(_)
Flat(chunks) == IF chunks = <<>> THEN <<>> ELSE Head(chunks) \o Flat(Tail(chunks))

\* The next multiple of 8 from n
Up8(n) == ((n + 7) \div 8) * 8

\* The bytes of out from offset a (from 0) up to offset b
Slice(out, a, b) == SubSeq(out, a + 1, b)

\* out holds sb at offset 96, zeros up to the next multiple of 8 and hb there
HeadersFramed(out, sb, hb) ==
  /\ Len(out) >= Up8(96 + Len(sb)) + Len(hb)
  /\ Slice(out, 96, 96 + Len(sb)) = sb
  /\ Slice(out, 96 + Len(sb), Up8(96 + Len(sb))) = Zeros(Up8(96 + Len(sb)) - (96 + Len(sb)))
  /\ Slice(out, Up8(96 + Len(sb)), Up8(96 + Len(sb)) + Len(hb)) = hb

\* out holds the payload right after the hb that starts at offset hdr
PayloadFollows(out, hdr, hb, payload) ==
  Slice(out, hdr + Len(hb), Len(out)) = payload

\* out holds zeros after the hb that starts at offset hdr, up to the next
\* multiple of 8, and the payload there
PayloadAligned(out, hdr, hb, payload) ==
  /\ Len(out) >= Up8(hdr + Len(hb))
  /\ Slice(out, hdr + Len(hb), Up8(hdr + Len(hb))) = Zeros(Up8(hdr + Len(hb)) - (hdr + Len(hb)))
  /\ Slice(out, Up8(hdr + Len(hb)), Len(out)) = payload

SigBytes == Bytes(wcRPM.sigIndex)
HdrBytes == Bytes(wcRPM.normalIndex)
HdrOffset == Up8(96 + Len(SigBytes))

\* C19 (as stated): in the bytes sent to the sink both headers are followed
\* by zeros up to the next multiple of 8, so the immutable header and the
\* payload both start at a multiple of 8.
C19_BothPadded ==
  wcOut # <<>> =>
    /\ HeadersFramed(Flat(wcOut), SigBytes, HdrBytes)
    /\ PayloadAligned(Flat(wcOut), HdrOffset, HdrBytes, wcRPM.payload)

\* C19 (amended): in the bytes sent to the sink the signature header is
\* followed by zeros up to the next multiple of 8, so the immutable header
\* starts at a multiple of 8; the payload follows the immutable header
\* without padding.
C19_SignaturePadded ==
  wcOut # <<>> =>
    /\ HeadersFramed(Flat(wcOut), SigBytes, HdrBytes)
    /\ HdrOffset % 8 = 0
    /\ PayloadFollows(Flat(wcOut), HdrOffset, HdrBytes, wcRPM.payload)

\* Both headers end off a multiple of 8 and a payload was written
C19_Witness ==
  /\ wcOut # <<>>
  /\ Len(SigBytes) % 8 # 0
  /\ Len(HdrBytes) % 8 # 0
  /\ wcRPM.payload # <<>>

(***************************************************************************)
(* DirIndex.Get calls on one directory index (SpecDir).                    *)
(***************************************************************************)
DirPaths == {<<"/">>, <<"/", "a", "/">>, <<"/", "a", "/", "b", "/">>, <<>>}

InitDir ==
  /\ InitRPM(NoMeta)
  /\ metaIn = <<>>
  /\ RelIdle
  /\ ScrIdle
  /\ LeadIdle
  /\ IdxIdle
  /\ FrameIdle
  /\ LateIdle
  /\ dirIdx = NewDirIndex
  /\ dirReqs = <<>>
  /\ dirRets = <<>>

GetCall(value) ==
  /\ Len(dirReqs) < MaxGets
  /\ dirIdx' = DirGet(dirIdx, value).d
  /\ dirReqs' = Append(dirReqs, value)
  /\ dirRets' = Append(dirRets, DirGet(dirIdx, value).idx)
  /\ UNCHANGED <<rpmVars, relVars, scrVars, leadVars, idxVars, frameVars, lateVars>>

NextDir == \E value \in DirPaths : GetCall(value)

SpecDir == InitDir /\ [][NextDir]_vars

\* The requests in order, each path only where it was first requested
RECURSIVE FirstRequests(_, _)
FirstRequests(reqs, seen) ==
  IF reqs = <<>> THEN <<>>
  ELSE IF Head(reqs) \in seen THEN FirstRequests(Tail(reqs), seen)
  ELSE <<Head(reqs)>> \o FirstRequests(Tail(reqs), seen \cup {Head(reqs)})

\* C20: after any sequence of Get calls AllDirs lists the requested paths,
\* each once, in the order of their first request; two calls returned the same
\* index exactly when they asked for the same path; the indexes returned are
\* exactly 0..len(AllDirs())-1; AllDirs()[Get(p)] = p for every call made and
\* for another Get(p), which leaves the index as it is.
C20_DirIndex ==
  /\ AllDirs(dirIdx) = FirstRequests(dirReqs, {})
  /\ \A i, j \in 1..Len(dirReqs) : (dirReqs[i] = dirReqs[j]) <=> (dirRets[i] = dirRets[j])
  /\ {dirRets[i] : i \in 1..Len(dirRets)} = 0..(Len(AllDirs(dirIdx)) - 1)
  /\ \A i \in 1..Len(dirReqs) :
       /\ AllDirs(dirIdx)[dirRets[i] + 1] = dirReqs[i]
       /\ DirGet(dirIdx, dirReqs[i]).idx = dirRets[i]
       /\ DirGet(dirIdx, dirReqs[i]).d = dirIdx

\* Three paths were requested and the first of them was requested again last
C20_Witness ==
  /\ Len(dirReqs) >= 4
  /\ Len(AllDirs(dirIdx)) = 3
  /\ dirReqs[Len(dirReqs)] = dirReqs[1]
  /\ dirReqs[2] # dirReqs[1]

(***************************************************************************)
(* The header's own record in the output of index.Bytes (SpecIndex).       *)
(***************************************************************************)
\* C21: for a header of kind h with n added tags, the first index record in
\* the output of index.Bytes is (h, BINARY, length of the data region - 16, 16),
\* the last 16 bytes of the data region are the record
\* (h, BINARY, -16 * (n + 1), 16), and the other index records follow the
\* first in strictly ascending order of their tags.
C21_EigenHeader ==
  idxOut # <<>> =>
    /\ Slice(idxOut, 16, 32)
         = Int32BE(idxIn.h) \o Int32BE(typeBinary)
             \o Int32BE(Len(DataRegion) - 16) \o Int32BE(16)
    /\ Slice(DataRegion, Len(DataRegion) - 16, Len(DataRegion))
         = Int32BE(idxIn.h) \o Int32BE(typeBinary)
             \o Int32BE(0 - 16 * (Cardinality(idxAdded) + 1)) \o Int32BE(16)
    /\ \A k \in 1..(Cardinality(idxAdded) - 1) : RecTag(k) < RecTag(k + 1)
    /\ {RecTag(k) : k \in 1..Cardinality(idxAdded)} = idxAdded

\* A signature header with three tags and padded data was serialised
C21_Witness ==
  /\ idxOut # <<>>
  /\ idxIn.h = signatures
  /\ Cardinality(idxAdded) >= 3
  /\ Len(DataRegion) > 16 + DataBytes(idxIn.entries, idxAdded)

(***************************************************************************)
(* Relations.Set and addIfMissing calls on one slice (SpecSet).            *)
(***************************************************************************)
\* Texts given to Set: the same relation spelled twice, relations that differ
\* in one component, texts with a space before or after the operator, and
\* one with an unknown operator
SetTexts ==
  { <<"a">>, <<"b">>, <<"a", "1">>, <<"a", " ", "1">>,
    <<"a", "=", "1">>, <<"a", " ", "=", " ", "1">>, <<"a", ">", "1">>,
    <<"a", "<", "=", "1">>, <<"a", "<", " ", "=", "1">>,
    <<"a", "=", "=", "1">> }

\* Relations given to addIfMissing directly
SetRelations ==
  { [Name |-> <<"a">>, Version |-> <<"1">>, Sense |-> SenseEqual],
    [Name |-> <<"a">>, Version |-> <<"1">>, Sense |-> SenseGreater],
    [Name |-> <<"a">>, Version |-> <<"2">>, Sense |-> SenseEqual],
    [Name |-> <<"b">>, Version |-> <<"1">>, Sense |-> SenseEqual] }

InitSet ==
  /\ InitRPM(NoMeta)
  /\ metaIn = <<>>
  /\ RelIdle
  /\ ScrIdle
  /\ LeadIdle
  /\ IdxIdle
  /\ DirIdle
  /\ FrameIdle
  /\ OrdIdle
  /\ EntIdle
  /\ TwoIdle
  /\ VerIdle
  /\ rsSet = <<>>
  /\ rsAdded = <<>>

SetCall(value) ==
  /\ Len(rsAdded) < MaxSets
  /\ rsSet' = RelationsSet(rsSet, value).rels
  /\ rsAdded' = IF NewRelation(value).err THEN rsAdded
                ELSE Append(rsAdded, NewRelation(value).rel)
  /\ UNCHANGED <<rpmVars, relVars, scrVars, leadVars, idxVars, dirVars, frameVars, ordVars, entVars, twoVars,
                 verVars>>

AddIfMissingCall(value) ==
  /\ Len(rsAdded) < MaxSets
  /\ rsSet' = addIfMissing(rsSet, value)
  /\ rsAdded' = Append(rsAdded, value)
  /\ UNCHANGED <<rpmVars, relVars, scrVars, leadVars, idxVars, dirVars, frameVars, ordVars, entVars, twoVars,
                 verVars>>

NextSet ==
  \/ \E value \in SetTexts : SetCall(value)
  \/ \E value \in SetRelations : AddIfMissingCall(value)

SpecSet == InitSet /\ [][NextSet]_vars

\* The strings of the relations added, each only where it first occurred
RECURSIVE FirstStrings(_, _)
FirstStrings(rels, seen) ==
  IF rels = <<>> THEN <<>>
  ELSE IF RelationString(Head(rels)) \in seen THEN FirstStrings(Tail(rels), seen)
  ELSE <<RelationString(Head(rels))>>
         \o FirstStrings(Tail(rels), seen \cup {RelationString(Head(rels))})

\* C22: after any sequence of Set and addIfMissing calls the slice holds the
\* relations that were added, in the order of their first insertion, each
\* (name, sense, version) triple once: a relation is left out only when the
\* identical triple is already a member.
C22_ExactDedup == rsSet = FirstRequests(rsAdded, {})

\* What the slice does hold: one relation for each String() of those added
C22_DedupByString ==
  [i \in 1..Len(rsSet) |-> RelationString(rsSet[i])] = FirstStrings(rsAdded, {})

(***************************************************************************)
(* The relation tags of the immutable header (SpecMeta).                   *)
(***************************************************************************)
\* The six categories: the parsed list of the RPM and the three tags
CategoryTags ==
  << [set |-> "parsedRequires", name |-> "tagRequire",
      version |-> "tagRequireVersion", flags |-> "tagRequireFlags"],
     [set |-> "parsedObsoletes", name |-> "tagObsolete",
      version |-> "tagObsoleteVersion", flags |-> "tagObsoleteFlags"],
     [set |-> "parsedConflicts", name |-> "tagConflicts",
      version |-> "tagConflictVersion", flags |-> "tagConflictFlags"],
     [set |-> "parsedRecommends", name |-> "tagRecommends",
      version |-> "tagRecommendVersion", flags |-> "tagRecommendFlags"],
     [set |-> "parseSuggests", name |-> "tagSuggests",
      version |-> "tagSuggestVersion", flags |-> "tagSuggestFlags"],
     [set |-> "parsedProvides", name |-> "tagProvides",
      version |-> "tagProvideVersion", flags |-> "tagProvideFlags"] >>

\* The header h holds the three tags of category c exactly when the list
\* rels is not empty, and then they list its members' fields in order
CategoryEmitted(h, c, rels) ==
  /\ (c.name \in DOMAIN h) <=> (Len(rels) > 0)
  /\ (c.version \in DOMAIN h) <=> (Len(rels) > 0)
  /\ (c.flags \in DOMAIN h) <=> (Len(rels) > 0)
  /\ Len(rels) > 0 =>
       /\ Len(h[c.name]) = Len(rels)
       /\ Len(h[c.version]) = Len(rels)
       /\ Len(h[c.flags]) = Len(rels)
       /\ \A i \in 1..Len(rels) :
            /\ h[c.name][i] = rels[i].Name
            /\ h[c.version][i] = rels[i].Version
            /\ h[c.flags][i] = rels[i].Sense

\* C23: for each of the six relation categories the immutable header holds
\* the category's name, version and flags tags if and only if the RPM's
\* relation list of that category is not empty, and then the three arrays are
\* as long as the list and hold, at each position, the name, the version and
\* the sense bits of the member at that position.
C23_RelationTags ==
  Emitted =>
    \A k \in 1..Len(CategoryTags) :
      CategoryEmitted(HB, CategoryTags[k], r[CategoryTags[k].set])

\* Two requirements were written, one with a version, and no conflicts
C23_Witness ==
  /\ Emitted
  /\ Len(r.parsedRequires) = 2
  /\ r.parsedRequires[1].Sense # SenseAny
  /\ r.parsedRequires[1] # r.parsedRequires[2]
  /\ "tagConflicts" \notin DOMAIN HB

(***************************************************************************)
(* The cpio record and the table entry of one file (Spec).                 *)
(***************************************************************************)
\* The entries of the header's file arrays that are not ghosts
NonGhostEntries ==
  {i \in 1..NumEntries : BitAnd(HB.tagFileFlags[i], GhostFile) = 0}

\* The cpio records written for the i-th entry of the file arrays
RecordsOfEntry(i) == {k \in 1..Len(Records) : Records[k].Name = FullPath(i)}

IsDirEntry(i) == BitAnd(HB.tagFileModes[i], 16384) # 0

\* C24 (as stated): for every entry that is not a ghost, of any kind, the
\* cpio header written for it has the mode and the size that the entry has
\* in filemodes and filesizes, and the cpio record has the file's body.
C24_SameModeSizeBody ==
  Emitted =>
    \A i \in NonGhostEntries :
      /\ RecordsOfEntry(i) # {}
      /\ \A k \in RecordsOfEntry(i) :
           /\ Records[k].Mode = HB.tagFileModes[i]
           /\ Records[k].Size = HB.tagFileSizes[i]
           /\ Records[k].Body = wrote[FullPath(i)].Body

\* C24 (amended): for every entry that is not a ghost the cpio header has
\* the whole mode (the file's Mode, with the regular-file bit for a regular
\* file) and filemodes has its low 16 bits, so the two are the same when the
\* mode fits in 16 bits; the cpio record has the file's body and the cpio
\* size is the length of that body; filesizes holds the same size for a
\* symlink or a regular file, and 4096 for a directory.
C24_SameModeAndBody ==
  Emitted =>
    \A i \in NonGhostEntries :
      /\ RecordsOfEntry(i) # {}
      /\ \A k \in RecordsOfEntry(i) :
           /\ Records[k].Mode =
                (IF FileKind(wrote[FullPath(i)].Mode) = "regular"
                 THEN BitOr(wrote[FullPath(i)].Mode, 32768)
                 ELSE wrote[FullPath(i)].Mode)
           /\ HB.tagFileModes[i] = Records[k].Mode % 65536
           /\ (Records[k].Mode < 65536 => Records[k].Mode = HB.tagFileModes[i])
           /\ Records[k].Body = wrote[FullPath(i)].Body
           /\ Records[k].Size = Len(Records[k].Body)
           /\ HB.tagFileSizes[i] = (IF IsDirEntry(i) THEN 4096 ELSE Records[k].Size)

\* A directory, a symlink with a body and a regular file with a body whose
\* mode does not fit in 16 bits were written
C24_Witness ==
  /\ Emitted
  /\ \E i \in NonGhostEntries : IsDirEntry(i)
  /\ \E i \in NonGhostEntries :
       FileKind(wrote[FullPath(i)].Mode) = "symlink" /\ HB.tagFileSizes[i] > 0
  /\ \E i \in NonGhostEntries :
       /\ FileKind(wrote[FullPath(i)].Mode) = "regular"
       /\ wrote[FullPath(i)].Mode >= 65536
       /\ HB.tagFileModes[i] # wrote[FullPath(i)].Mode
       /\ HB.tagFileSizes[i] > 0

(***************************************************************************)
(* Owner and group defaults (Spec).                                        *)
(***************************************************************************)
\* The name emitted for an owner or group given to AddFile
OrRoot(name) == IF name = "" THEN "root" ELSE name

\* C25: for every file added through AddFile the fileowners entry emitted
\* by Write is "root" when the file's Owner is empty and the Owner otherwise,
\* and the filegroups entry is "root" when the Group is empty and the Group
\* otherwise.
C25_DefaultRoot ==
  Emitted =>
    \A i \in 1..NumEntries :
      /\ HB.tagFileUserName[i] = OrRoot(wrote[FullPath(i)].Owner)
      /\ HB.tagFileGroupName[i] = OrRoot(wrote[FullPath(i)].Group)

\* The same for the files whose Owner and Group are both empty, for which
\* it does not matter which of the two goes to which array
C25_DefaultRootBothEmpty ==
  Emitted =>
    \A i \in 1..NumEntries :
      (wrote[FullPath(i)].Owner = "" /\ wrote[FullPath(i)].Group = "")
        => (HB.tagFileUserName[i] = "root" /\ HB.tagFileGroupName[i] = "root")

(***************************************************************************)
(* RPM.Write statement by statement (SpecOrder).                           *)
(***************************************************************************)
OrdPaths == {<<"/", "b">>, <<"/", "a", "/", "b">>}
OrdSamples == {a \in FileSamples : a.Mode \in {420, 16877}}

\* What one statement of Write does to the payload, with the state of the
\* two writers when it does it
Event(op, rpm) ==
  [op |-> op, records |-> Len(rpm.cpio.records),
   cpioClosed |-> rpm.cpio.closed, gzClosed |-> rpm.gzClosed]

\* The rest of the variables of the other specifications
OrdOthers ==
  <<rpmVars, relVars, scrVars, leadVars, idxVars, dirVars, frameVars, setVars, entVars,
    twoVars, verVars>>

InitOrder ==
  /\ InitRPM(NoMeta)
  /\ metaIn = <<>>
  /\ RelIdle
  /\ ScrIdle
  /\ LeadIdle
  /\ IdxIdle
  /\ DirIdle
  /\ FrameIdle
  /\ SetIdle
  /\ EntIdle
  /\ TwoIdle
  /\ VerIdle
  /\ OrdIdle

At(step) == ordPos > 0 /\ WriteOrder[ordPos] = step

\* The statement is done: on to the next, or return nil after the last
Advance ==
  IF ordPos = Len(WriteOrder)
  THEN ordPos' = 0 /\ ordRet' = "nil"
  ELSE ordPos' = ordPos + 1 /\ ordRet' = ordRet

\* Write returns an error
Fail == ordPos' = 0 /\ ordRet' = "error"

OrdAddFile(f) ==
  /\ ordPos = 0
  /\ ordR.files # AddFile(ordR.files, f)
  /\ ordR' = [ordR EXCEPT !.files = AddFile(ordR.files, f)]
  /\ UNCHANGED <<ordPos, ordTodo, ordLog, ordRet, ordRuns, OrdOthers>>

\* if r.closed { return ErrWriteAfterClose }; fnames; sort.Strings(fnames)
OrdBegin ==
  /\ ordPos = 0
  /\ ordRuns < MaxRuns
  /\ ordRuns' = ordRuns + 1
  /\ ordLog' = <<>>
  /\ IF ordR.closed
     THEN ordPos' = 0 /\ ordRet' = "ErrWriteAfterClose" /\ ordTodo' = <<>>
     ELSE ordPos' = 1 /\ ordRet' = "none" /\ ordTodo' = SortStrings(DOMAIN ordR.files)
  /\ UNCHANGED <<ordR, OrdOthers>>

\* One iteration of the loop over fnames, or its end
OrdFile ==
  /\ At("files")
  /\ IF ordTodo = <<>>
     THEN Advance /\ UNCHANGED <<ordR, ordTodo, ordLog>>
     ELSE IF writeFile(ordR, ordR.files[Head(ordTodo)]).err
     THEN /\ Fail
          /\ ordR' = writeFile(ordR, ordR.files[Head(ordTodo)]).r
          /\ UNCHANGED <<ordTodo, ordLog>>
     ELSE /\ ordR' = writeFile(ordR, ordR.files[Head(ordTodo)]).r
          /\ ordTodo' = Tail(ordTodo)
          /\ ordLog' = Append(ordLog, Event("record", ordR))
          /\ UNCHANGED <<ordPos, ordRet>>
  /\ UNCHANGED <<ordRuns, OrdOthers>>

\* r.cpio.Close()
OrdCpioClose ==
  /\ At("cpioClose")
  /\ ordR' = [ordR EXCEPT !.cpio.closed = TRUE]
  /\ ordLog' = Append(ordLog, Event("cpioClose", ordR))
  /\ Advance
  /\ UNCHANGED <<ordTodo, ordRuns, OrdOthers>>

\* r.gzPayload.Close()
OrdGzClose ==
  /\ At("gzClose")
  /\ ordR' = [ordR EXCEPT !.gzClosed = TRUE]
  /\ ordLog' = Append(ordLog, Event("gzClose", ordR))
  /\ Advance
  /\ UNCHANGED <<ordTodo, ordRuns, OrdOthers>>

\* h := newIndex(immutable); writeGenIndexes; writeFileIndexes; h.Bytes()
OrdHeader ==
  /\ At("header")
  /\ Advance
  /\ UNCHANGED <<ordR, ordTodo, ordLog, ordRuns, OrdOthers>>

\* writeSignatures: r.payload.Len() is read for sigSize
OrdSignatures ==
  /\ At("signatures")
  /\ ordLog' = Append(ordLog, Event("payloadLen", ordR))
  /\ Advance
  /\ UNCHANGED <<ordR, ordTodo, ordRuns, OrdOthers>>

\* w.Write of the lead, of sb, of the padding or of hb: it succeeds or fails
OrdSinkWrite ==
  /\ At("lead") \/ At("sb") \/ At("pad") \/ At("hb")
  /\ Advance \/ Fail
  /\ UNCHANGED <<ordR, ordTodo, ordLog, ordRuns, OrdOthers>>

\* w.Write(r.payload.Bytes()): the buffer is read, the write succeeds or fails
OrdPayload ==
  /\ At("payload")
  /\ ordLog' = Append(ordLog, Event("payloadBytes", ordR))
  /\ Advance \/ Fail
  /\ UNCHANGED <<ordR, ordTodo, ordRuns, OrdOthers>>

NextOrder ==
  \/ \E p \in OrdPaths, a \in OrdSamples : OrdAddFile(RPMFile(p, a))
  \/ OrdBegin
  \/ OrdFile
  \/ OrdCpioClose
  \/ OrdGzClose
  \/ OrdHeader
  \/ OrdSignatures
  \/ OrdSinkWrite
  \/ OrdPayload

SpecOrder == InitOrder /\ [][NextOrder]_vars

\* The places in the log of the events of kind op
EventsOf(op) == {i \in 1..Len(ordLog) : ordLog[i].op = op}
Reads == EventsOf("payloadLen") \cup EventsOf("payloadBytes")

\* C26: in every execution of Write every file record is written to the
\* open cpio writer before the cpio writer is closed, when it is closed all
\* files have been written, it is closed before the compressor is closed, and
\* the payload buffer is read (for the signature size and for the bytes sent
\* to the sink) only after the compressor is closed, with all records in it.
C26_WriteOrder ==
  /\ \A i \in EventsOf("record") :
       /\ ~ordLog[i].cpioClosed /\ ~ordLog[i].gzClosed
       /\ \A j \in EventsOf("cpioClose") \cup EventsOf("gzClose") : i < j
  /\ \A i \in EventsOf("cpioClose") :
       /\ ordTodo = <<>>
       /\ \A j \in EventsOf("gzClose") : i < j
  /\ \A j \in Reads :
       /\ \E i \in EventsOf("gzClose") : i < j
       /\ \E i \in EventsOf("cpioClose") : i < j
       /\ ordLog[j].cpioClosed /\ ordLog[j].gzClosed
       /\ ordLog[j].records = Len(ordR.cpio.records)

\* A Write of two files has returned nil
C26_Witness ==
  /\ ordRet = "nil"
  /\ Cardinality(EventsOf("record")) = 2
  /\ Cardinality(Reads) = 2

(***************************************************************************)
(* NewIndexEntry on string arrays (SpecEntry).                             *)
(***************************************************************************)
\* "", "a", "bc" and "def" as bytes
EntryStrings == {<<>>, <<97>>, <<98, 99>>, <<100, 101, 102>>}

InitEntry ==
  /\ InitRPM(NoMeta)
  /\ metaIn = <<>>
  /\ RelIdle
  /\ ScrIdle
  /\ LeadIdle
  /\ IdxIdle
  /\ DirIdle
  /\ FrameIdle
  /\ SetIdle
  /\ OrdIdle
  /\ TwoIdle
  /\ VerIdle
  /\ entIn \in SeqsUpTo(EntryStrings, MaxStrings)
  /\ entOut = NoEntry

NewIndexEntryCall ==
  /\ entOut = NoEntry
  /\ entOut' = NewIndexEntry([kind |-> "[]string", v |-> entIn])
  /\ UNCHANGED <<entIn, rpmVars, relVars, scrVars, leadVars, idxVars, dirVars,
                 frameVars, setVars, ordVars, twoVars, verVars>>

NextEntry == NewIndexEntryCall

SpecEntry == InitEntry /\ [][NextEntry]_vars

\* Each string followed by one NUL byte
RECURSIVE Terminated(_)
Terminated(v) ==
  IF v = <<>> THEN <<>> ELSE Head(v) \o <<0>> \o Terminated(Tail(v))

RECURSIVE SumLen(_)
SumLen(v) == IF v = <<>> THEN 0 ELSE Len(Head(v)) + SumLen(Tail(v))

\* The entry e is the string-array entry of the strings v, as specified
IsStringArrayOf(e, v) ==
  /\ ~e.err
  /\ e.rpmtype = typeStringArray
  /\ e.count = Len(v)
  /\ e.data = Terminated(v)
  /\ Len(e.data) = SumLen(v) + Len(v)

\* C27: for every array of n >= 0 strings NewIndexEntry returns an entry of
\* type STRING_ARRAY with count n whose data is each string followed by one
\* NUL byte, of length the sum of the string lengths plus n (no data for the
\* empty array).
C27_StringArray == entOut # NoEntry => IsStringArrayOf(entOut, entIn)

\* The same for the arrays that hold at least one string
C27_NonEmptyArray ==
  (entOut # NoEntry /\ entIn # <<>>) => IsStringArrayOf(entOut, entIn)

(***************************************************************************)
(* Two RPMs given the same files in two orders (SpecTwo).                  *)
(***************************************************************************)
TwoPaths == Paths \ {<<"/">>}
TwoSamples == {a \in FileSamples : a.Mode \in {420, 16877, 41471}}

\* The sequences that list every element of S once
Orders(S) ==
  {o \in [1..Cardinality(S) -> S] : \A i, j \in 1..Cardinality(S) : i # j => o[i] # o[j]}

\* The files of the assignment fs (path -> sample) in the order o of its paths
FilesIn(fs, o) == [i \in 1..Len(o) |-> RPMFile(o[i], fs[o[i]])]

InitTwo ==
  /\ InitRPM(NoMeta)
  /\ metaIn = <<>>
  /\ RelIdle
  /\ ScrIdle
  /\ LeadIdle
  /\ IdxIdle
  /\ DirIdle
  /\ FrameIdle
  /\ SetIdle
  /\ OrdIdle
  /\ EntIdle
  /\ VerIdle
  /\ twoR = <<NewRPM(NoMeta).r, NewRPM(NoMeta).r>>
  /\ \E P \in SUBSET TwoPaths :
       /\ Cardinality(P) <= MaxFiles
       /\ \E fs \in [P -> TwoSamples], o1 \in Orders(P), o2 \in Orders(P) :
            twoTodo = <<FilesIn(fs, o1), FilesIn(fs, o2)>>
  /\ twoOut = <<<<>>, <<>>>>

TwoOthers ==
  <<rpmVars, relVars, scrVars, leadVars, idxVars, dirVars, frameVars, setVars, ordVars,
    entVars, verVars>>

\* r.AddFile of the next file of the k-th RPM
TwoAddFile(k) ==
  /\ twoTodo[k] # <<>>
  /\ twoR' = [twoR EXCEPT ![k].files = AddFile(@, Head(twoTodo[k]))]
  /\ twoTodo' = [twoTodo EXCEPT ![k] = Tail(@)]
  /\ UNCHANGED <<twoOut, TwoOthers>>

\* r.Write of the k-th RPM to a sink that takes every write; range yields
\* the keys of r.files in any order
TwoWrite(k) ==
  /\ twoTodo[k] = <<>>
  /\ twoOut[k] = <<>>
  /\ \E fnames \in Orders(DOMAIN twoR[k].files) :
       /\ twoR' = [twoR EXCEPT ![k] = WriteRanged(twoR[k], fnames).r]
       /\ twoOut' = [twoOut EXCEPT ![k] = WriteRanged(twoR[k], fnames).chunks]
  /\ UNCHANGED <<twoTodo, TwoOthers>>

NextTwo == \E k \in 1..2 : TwoAddFile(k) \/ TwoWrite(k)

SpecTwo == InitTwo /\ [][NextTwo]_vars

\* The file arrays and dirnames of a header
FileArrays(h) == [t \in FileArrayTags \cup {"tagDirnames"} |-> h[t]]

BothWritten == twoOut[1] # <<>> /\ twoOut[2] # <<>>

\* C28: two RPMs of equal metadata that were given the same files, of
\* pairwise distinct paths, in two orders write the same header file arrays,
\* the same dirnames and the same sequence of cpio records.
C28_OrderIndependent ==
  BothWritten =>
    /\ FileArrays(twoOut[1][4].index) = FileArrays(twoOut[2][4].index)
    /\ twoOut[1][5].records = twoOut[2][5].records

\* Three files were added to the two RPMs in opposite orders
C28_Witness ==
  /\ BothWritten
  /\ twoR[1].files = twoR[2].files
  /\ Len(twoOut[1][5].records) = 3
  /\ Len(twoOut[1][4].index.tagDirnames) = 2
  /\ \E i \in 1..3 : twoOut[1][5].records[i].Body # <<>>

(***************************************************************************)
(* VerifyRequiredTags (SpecVerify).                                        *)
(***************************************************************************)
\* requiredTags["signatures"], requiredTags["payload"]: the rpmType of each tag
RequiredSignatures ==
  [t \in {"sigSHA256", "sigSize", "sigPayloadSize"} |->
     IF t = "sigSHA256" THEN typeString ELSE typeInt32]

\* The keys of requiredTags["payload"] as they are written
PayloadTags ==
  <<"tagName", "tagSummary", "tagDescription", "tagVersion", "tagRelease",
    "tagSize", "tagLicence", "tagGroup", "tagOS", "tagArch",
    "tagPayloadFormat", "tagPayloadCompressor", "tagPayloadFlags">>

RequiredPayload ==
  [t \in {PayloadTags[i] : i \in DOMAIN PayloadTags} |->
     IF t = "tagSize" THEN typeInt32 ELSE typeString]

\* verifyEntry: "nil" or the error it wraps
verifyEntry(entry, rpmType) ==
  IF entry.rpmtype # rpmType THEN "ErrInvalidRPMTagType"
  ELSE IF Len(entry.data) = 1 /\ entry.data[1] = 0 THEN "ErrMissingRequiredTag"
  ELSE "nil"

\* The body of the loop of verifySignature for one tag: "nil" to go on, the
\* error it returns, or "panic" where it reads .data through the nil pointer
\* that the map gives for a key it does not hold
signatureTag(sig, payload, tag) ==
  IF tag \notin DOMAIN sig THEN "ErrMissingRequiredTag"
  ELSE IF verifyEntry(sig[tag], RequiredSignatures[tag]) # "nil"
    THEN verifyEntry(sig[tag], RequiredSignatures[tag])
  ELSE IF tag # "sigPayloadSize" THEN "nil"
  ELSE IF "tagSize" \notin DOMAIN payload THEN "panic"
  ELSE IF sig[tag].data # payload["tagSize"].data THEN "errors.New"
  ELSE "nil"

\* RPM.verifySignature where range yields the required tags in this order
RECURSIVE verifySignature(_, _, _)
verifySignature(sig, payload, order) ==
  IF order = <<>> THEN "nil"
  ELSE IF signatureTag(sig, payload, Head(order)) # "nil"
    THEN signatureTag(sig, payload, Head(order))
  ELSE verifySignature(sig, payload, Tail(order))

\* The body of the loop of verifyPayload for one tag
payloadTag(payload, tag) ==
  IF tag \notin DOMAIN payload THEN "ErrMissingRequiredTag"
  ELSE verifyEntry(payload[tag], RequiredPayload[tag])

\* RPM.verifyPayload where range yields the required tags in this order
RECURSIVE verifyPayload(_, _)
verifyPayload(payload, order) ==
  IF order = <<>> THEN "nil"
  ELSE IF payloadTag(payload, Head(order)) # "nil"
    THEN payloadTag(payload, Head(order))
  ELSE verifyPayload(payload, Tail(order))

\* RPM.VerifyRequiredTags
VerifyRequiredTags(sig, payload, sigOrder, payloadOrder) ==
  IF verifySignature(sig, payload, sigOrder) # "nil"
  THEN verifySignature(sig, payload, sigOrder)
  ELSE verifyPayload(payload, payloadOrder)

\* The entries put in the indexes: the strings "a" and "", the sizes 5 and 7
VerEntries ==
  {NewIndexEntry([kind |-> "string", v |-> <<97>>]),
   NewIndexEntry([kind |-> "string", v |-> <<>>]),
   NewIndexEntry([kind |-> "[]int32", v |-> <<5>>]),
   NewIndexEntry([kind |-> "[]int32", v |-> <<7>>])}

\* The maps that hold some of the tags T, each with one of the entries
EntriesOver(T) == UNION {[K -> VerEntries] : K \in SUBSET T}

\* The payload tags whose entry varies; the others hold the string "a"
VerVaried == {"tagName", "tagSize", "tagArch"}

\* The orders of the payload tags that begin at each tag in turn and wrap
\* round: every tag is the first to fail in one of them
Rotations(order) ==
  {[i \in 1..Len(order) |-> order[((i + k - 1) % Len(order)) + 1]] : k \in 1..Len(order)}

InitVerify ==
  /\ InitRPM(NoMeta)
  /\ metaIn = <<>>
  /\ RelIdle
  /\ ScrIdle
  /\ LeadIdle
  /\ IdxIdle
  /\ DirIdle
  /\ FrameIdle
  /\ SetIdle
  /\ OrdIdle
  /\ EntIdle
  /\ TwoIdle
  /\ verSig \in EntriesOver(DOMAIN RequiredSignatures)
  /\ \E varied \in EntriesOver(VerVaried) :
       verPayload =
         [t \in (DOMAIN RequiredPayload \ VerVaried) \cup DOMAIN varied |->
            IF t \in DOMAIN varied THEN varied[t]
            ELSE NewIndexEntry([kind |-> "string", v |-> <<97>>])]
  /\ verRet = "none"

VerifyRequiredTagsCall ==
  /\ verRet = "none"
  /\ \E sigOrder \in Orders(DOMAIN RequiredSignatures),
        payloadOrder \in Rotations(PayloadTags) :
       verRet' = VerifyRequiredTags(verSig, verPayload, sigOrder, payloadOrder)
  /\ UNCHANGED <<verSig, verPayload, rpmVars, relVars, scrVars, leadVars, idxVars,
                 dirVars, frameVars, setVars, ordVars, entVars, twoVars>>

NextVerify == VerifyRequiredTagsCall

SpecVerify == InitVerify /\ [][NextVerify]_vars

\* The signature index holds each of its required tags, with the required
\* type and data other than one zero byte
SignaturesGood ==
  \A t \in DOMAIN RequiredSignatures :
    t \in DOMAIN verSig /\ verifyEntry(verSig[t], RequiredSignatures[t]) = "nil"

\* C29: VerifyRequiredTags returns nil or an error for every combination of
\* present and absent tags, and returns an error wrapping
\* ErrMissingRequiredTag when the signature index holds its required tags
\* and the payload index has no size tag.
C29_ReturnsError ==
  verRet # "none" =>
    /\ verRet \in {"nil", "ErrMissingRequiredTag", "ErrInvalidRPMTagType", "errors.New"}
    /\ (SignaturesGood /\ "tagSize" \notin DOMAIN verPayload
          => verRet = "ErrMissingRequiredTag")

\* Away from that case the call returns: it panics only when the payload
\* index has no size tag and the signature index has a well-typed payload size.
C29_PanicOnlyWithoutSize ==
  verRet = "panic" =>
    /\ "tagSize" \notin DOMAIN verPayload
    /\ "sigPayloadSize" \in DOMAIN verSig
    /\ verifyEntry(verSig["sigPayloadSize"], typeInt32) = "nil"

(***************************************************************************)
(* Basenames and directory names of the stored paths (Spec).               *)
(***************************************************************************)
HasSlash(s) == \E k \in 1..Len(s) : s[k] = "/"
EndsWithSlash(s) == s # <<>> /\ s[Len(s)] = "/"

\* C30: after Write, for every stored path that starts with "/", also one
\* that ends with "/", the emitted basename is not empty and holds no "/",
\* and the directory name it is indexed under ends with "/".
C30_Basenames ==
  Emitted =>
    \A i \in 1..NumEntries :
      (FullPath(i) \in StoredPaths /\ Head(FullPath(i)) = "/")
      => /\ HB.tagBasenames[i] # <<>>
         /\ ~HasSlash(HB.tagBasenames[i])
         /\ EndsWithSlash(HB.tagDirnames[HB.tagDirindexes[i] + 1])

\* What the code does keep: no basename holds "/", every directory name ends
\* with "/", and the basename is empty exactly for the paths that end with "/".
C30_SplitAtLastSlash ==
  Emitted =>
    \A i \in 1..NumEntries :
      /\ FullPath(i) \in StoredPaths
      /\ ~HasSlash(HB.tagBasenames[i])
      /\ EndsWithSlash(HB.tagDirnames[HB.tagDirindexes[i] + 1])
      /\ (HB.tagBasenames[i] = <<>>) = EndsWithSlash(FullPath(i))

====
